---- MODULE Spec2Model ----
(***************************************************************************)
(* UnoPass server core: VaultService (session, auto-lock, entry            *)
(* mutations), vaultStorage (temp file + rename persistence) and           *)
(* vaultCrypto (scrypt key, AES-256-GCM payload, HMAC-SHA256 tag).         *)
(*                                                                         *)
(* Strings are sequences of one-character strings.  Every "await" of the   *)
(* source is a separate step of the operation that executes it, so that    *)
(* operations in flight interleave exactly at their await points.          *)
(* Cryptographic primitives are symbolic terms: a key, a ciphertext, a tag *)
(* is the record of the inputs it was computed from, and two terms are     *)
(* equal exactly when their inputs are (no collisions, no forgery).        *)
(***************************************************************************)
EXTENDS Integers, Sequences, FiniteSets, TLC

(***************************************************************************)
(* Bounds of the exploration.                                              *)
(***************************************************************************)
\* in-flight asynchronous operations (request handlers between two awaits)
MaxInflight == 2
\* calls of unlock, addEntry, updateEntry and deleteEntry that get past
\* requireSession; each draws random values (a token, a salt, an id, an IV)
MaxCalls == 3
\* clock ticks
MaxTime == 2
\* the positive lockTimeoutMs the service may be constructed with, in ticks
LockTimeout == 1
\* periods of the limiter's sweep that the clock of the limiter runs through
MaxSweeps == 2

(***************************************************************************)
(* Strings.                                                                *)
(***************************************************************************)
UpperToLower == ("A" :> "a") @@ ("C" :> "c") @@ ("W" :> "w")

toLowerCase(s) ==
  [i \in 1..Len(s) |-> IF s[i] \in DOMAIN UpperToLower THEN UpperToLower[s[i]] ELSE s[i]]

\* String.prototype.indexOf, 1-based; 0 when sub does not occur
IndexOf(s, sub) ==
  LET hits == {i \in 1..(Len(s) - Len(sub) + 1) : SubSeq(s, i, i + Len(sub) - 1) = sub}
  IN IF hits = {} THEN 0 ELSE CHOOSE i \in hits : \A j \in hits : i <= j

includes(s, sub) == IndexOf(s, sub) # 0

startsWith(s, pre) == Len(s) >= Len(pre) /\ SubSeq(s, 1, Len(pre)) = pre

endsWith(s, suf) == Len(s) >= Len(suf) /\ SubSeq(s, Len(s) - Len(suf) + 1, Len(s)) = suf

RECURSIVE trimStart(_)
trimStart(s) == IF s # <<>> /\ Head(s) = " " THEN trimStart(Tail(s)) ELSE s

RECURSIVE trimEnd(_)
trimEnd(s) == IF s # <<>> /\ s[Len(s)] = " " THEN trimEnd(SubSeq(s, 1, Len(s) - 1)) ELSE s

trim(s) == trimEnd(trimStart(s))

\* index of the first character of s that belongs to cs, Len(s)+1 when none does
FirstOf(s, cs) ==
  LET hits == {i \in 1..Len(s) : s[i] \in cs}
  IN IF hits = {} THEN Len(s) + 1 ELSE CHOOSE i \in hits : \A j \in hits : i <= j

(***************************************************************************)
(* utils/domain.ts.  new URL(formatted) is modelled for the characters of  *)
(* the alphabet: letters, ".", "/", ":" and " ".  The result is            *)
(* [ok |-> FALSE] where the constructor throws.                            *)
(***************************************************************************)
Letters == {"a", "c", "w", "A", "C", "W", "h", "t", "p", "s"}
SchemeSep == <<":", "/", "/">>
HttpsPrefix == <<"h", "t", "t", "p", "s", ":", "/", "/">>
WwwPrefix == <<"w", "w", "w", ".">>

\* the hostname new URL(input) reports; the parser first strips leading and
\* trailing spaces
UrlHostname(input) ==
  LET str == trim(input)
      colon == FirstOf(str, {":"})
      scheme == SubSeq(str, 1, colon - 1)
      rest == SubSeq(str, colon + 3, Len(str))
      authority == SubSeq(rest, 1, FirstOf(rest, {"/"}) - 1)
      portAt == FirstOf(authority, {":"})
      host == SubSeq(authority, 1, portAt - 1)
      port == SubSeq(authority, portAt + 1, Len(authority))
  IN IF \/ scheme = <<>>
        \/ \E i \in 1..Len(scheme) : scheme[i] \notin Letters
        \/ SubSeq(str, colon, colon + 2) # SchemeSep
        \/ host = <<>>
        \/ \E i \in 1..Len(host) : host[i] \notin Letters \cup {"."}
        \/ port # <<>>
     THEN [ok |-> FALSE, hostname |-> <<>>]
     ELSE [ok |-> TRUE, hostname |-> toLowerCase(host)]

normalizeDomain(input) ==
  LET formatted == IF includes(input, SchemeSep) THEN input ELSE HttpsPrefix \o input
      url == UrlHostname(formatted)
  IN IF url.ok
     THEN toLowerCase(IF startsWith(url.hostname, WwwPrefix)
                      THEN SubSeq(url.hostname, 5, Len(url.hostname))
                      ELSE url.hostname)
     ELSE toLowerCase(trim(input))

domainMatches(entryDomain, targetDomain) ==
  LET cleanEntry == normalizeDomain(entryDomain)
      cleanTarget == normalizeDomain(targetDomain)
  IN cleanTarget = cleanEntry \/ endsWith(cleanTarget, <<".">> \o cleanEntry)

(***************************************************************************)
(* crypto/vaultCrypto.ts, symbolically.                                    *)
(***************************************************************************)
DEFAULT_KDF == [N |-> 65536, r |-> 8, p |-> 1, keyLength |-> 32]

\* salt: the 16 random bytes drawn by crypto.randomBytes
generateKdfParams(salt) ==
  [salt |-> salt, N |-> DEFAULT_KDF.N, r |-> DEFAULT_KDF.r, p |-> DEFAULT_KDF.p,
   keyLength |-> DEFAULT_KDF.keyLength]

\* scrypt: a key is determined by, and determines, the password and parameters
deriveKey(masterPassword, params) == [pw |-> masterPassword, kdf |-> params]

\* the value of a property that is set to undefined
Undefined == <<"undefined">>

\* an entry as JSON.stringify writes it: without notes when notes is undefined
Defined(entry) ==
  [f \in {g \in DOMAIN entry : g # "notes" \/ entry.notes # Undefined} |-> entry[f]]

\* JSON.stringify that writes no notes at all
JSONstringifyNoNotes(data) ==
  IF DOMAIN data = {"entries"}
  THEN [json |-> [entries |-> [i \in 1..Len(data.entries) |->
                    [f \in DOMAIN data.entries[i] \ {"notes"} |-> data.entries[i][f]]]]]
  ELSE [json |-> data]

\* JSON.stringify of a VaultData or of a VaultFile
JSONstringify(data) ==
  IF DOMAIN data = {"entries"}
  THEN [json |-> [entries |-> [i \in 1..Len(data.entries) |->
                                 Defined(data.entries[i])]]]
  ELSE [json |-> data]

\* JSON.parse of text produced by JSON.stringify; anything else throws
JSONparse(text) ==
  IF DOMAIN text = {"json"} THEN [ok |-> TRUE, value |-> text.json]
  ELSE [ok |-> FALSE, value |-> <<>>]

\* iv: the 12 random bytes drawn by crypto.randomBytes
encryptPayload(data, key, iv) ==
  LET encrypted == [key |-> key, iv |-> iv, plain |-> data]
  IN [iv |-> iv, data |-> encrypted, authTag |-> [key |-> key, iv |-> iv, ct |-> encrypted]]

\* decipher.final() throws unless the tag is the GCM tag of the ciphertext
\* under this key and IV
decryptPayload(payload, key) ==
  IF /\ payload.authTag = [key |-> key, iv |-> payload.iv, ct |-> payload.data]
     /\ payload.data.key = key
     /\ payload.data.iv = payload.iv
  THEN [ok |-> TRUE, plain |-> payload.data.plain]
  ELSE [ok |-> FALSE, plain |-> <<>>]

computeHMAC(vaultFile, key) ==
  [key |-> key, version |-> vaultFile.version, kdf |-> vaultFile.kdf,
   cipher |-> vaultFile.cipher]

\* the value of a missing hmac field
NoHmac == [absent |-> TRUE]

\* encryptVaultWithKey that writes the format of version 1
encryptVaultWithKeyLegacy(data, key, kdf, iv) ==
  LET payload == encryptPayload(JSONstringify(data), key, iv)
  IN [version |-> 1, kdf |-> kdf, cipher |-> payload, hmac |-> NoHmac]

encryptVaultWithKey(data, key, kdf, iv) ==
  LET payload == encryptPayload(JSONstringify(data), key, iv)
      vaultWithoutHmac == [version |-> 2, kdf |-> kdf, cipher |-> payload]
  IN [version |-> 2, kdf |-> kdf, cipher |-> payload,
      hmac |-> computeHMAC(vaultWithoutHmac, key)]

\* the part of encryptVault after the awaited deriveKey
encryptVault(data, key, kdf, iv) ==
  [vault |-> encryptVaultWithKey(data, key, kdf, iv), key |-> key]

\* decryptVaultWithKey that demands the HMAC of every version
decryptVaultWithKeyAnyVersion(vault, key) ==
  IF vault.hmac = NoHmac
  THEN [ok |-> FALSE, error |-> "HMAC_MISSING", data |-> <<>>]
  ELSE IF vault.hmac # computeHMAC([version |-> vault.version, kdf |-> vault.kdf,
                                    cipher |-> vault.cipher], key)
  THEN [ok |-> FALSE, error |-> "TAMPERED", data |-> <<>>]
  ELSE LET plaintext == decryptPayload(vault.cipher, key)
       IN IF ~plaintext.ok THEN [ok |-> FALSE, error |-> "AUTH_TAG", data |-> <<>>]
          ELSE IF ~JSONparse(plaintext.plain).ok
          THEN [ok |-> FALSE, error |-> "SYNTAX", data |-> <<>>]
          ELSE [ok |-> TRUE, error |-> "", data |-> JSONparse(plaintext.plain).value]

\* decryptVaultWithKey that opens the cipher without verifying the HMAC
decryptVaultWithKeyUnverified(vault, key) ==
  LET plaintext == decryptPayload(vault.cipher, key)
  IN IF ~plaintext.ok THEN [ok |-> FALSE, error |-> "AUTH_TAG", data |-> <<>>]
     ELSE IF ~JSONparse(plaintext.plain).ok
     THEN [ok |-> FALSE, error |-> "SYNTAX", data |-> <<>>]
     ELSE [ok |-> TRUE, error |-> "", data |-> JSONparse(plaintext.plain).value]

\* [ok |-> FALSE, error |-> e] where the source throws
decryptVaultWithKey(vault, key) ==
  IF vault.version >= 2 /\ vault.hmac = NoHmac
  THEN [ok |-> FALSE, error |-> "HMAC_MISSING", data |-> <<>>]
  ELSE IF /\ vault.version >= 2
          /\ vault.hmac # computeHMAC([version |-> vault.version, kdf |-> vault.kdf,
                                       cipher |-> vault.cipher], key)
  THEN [ok |-> FALSE, error |-> "TAMPERED", data |-> <<>>]
  ELSE LET plaintext == decryptPayload(vault.cipher, key)
       IN IF ~plaintext.ok THEN [ok |-> FALSE, error |-> "AUTH_TAG", data |-> <<>>]
          ELSE IF ~JSONparse(plaintext.plain).ok
          THEN [ok |-> FALSE, error |-> "SYNTAX", data |-> <<>>]
          ELSE [ok |-> TRUE, error |-> "", data |-> JSONparse(plaintext.plain).value]

\* the part of decryptVault after the awaited deriveKey
decryptVault(vault, key) ==
  LET d == decryptVaultWithKey(vault, key)
  IN [ok |-> d.ok, error |-> d.error, vault |-> d.data, key |-> key, kdf |-> vault.kdf]

(***************************************************************************)
(* State.                                                                  *)
(***************************************************************************)
VARIABLES
  now,            \* Date.now(), in ticks
  lockTimeoutMs,  \* VaultService.lockTimeoutMs, fixed by the constructor
  session,        \* VaultService.session
  lockTimer,      \* VaultService.lockTimer: a timer handle, or NoTimer
  timers,         \* the runtime's pending setTimeout timers
  vaultPath,      \* the file at VAULT_PATH
  tmpPath,        \* the file at VAULT_PATH + ".tmp"
  ops,            \* the asynchronous operations in flight, by slot
  resp,           \* the response this step sent to its caller, or Quiet
  nextToken,      \* uuidv4 draws for session tokens so far
  nextRand,       \* calls that were given random values so far: the k-th call
                  \* draws salt k, IV k and id k, whichever of them it needs
  windowMs,       \* RateLimiter.windowMs, fixed by the constructor
  maxAttempts,    \* RateLimiter.maxAttempts, fixed by the constructor
  blockDurationMs,\* RateLimiter.blockDurationMs, fixed by the constructor
  attempts,       \* RateLimiter.attempts: client key -> RateLimitEntry or NoEntry
  routes,         \* by slot: the client key of the POST /api/unlock handler
                  \* that awaits the slot's unlock, or NoRoute
  passed,         \* history: by client key, the times within the last windowMs
                  \* at which the limiter let a request through, since the
                  \* key's last reset
  history,        \* history: what the last successful create or mutation left
                  \* in memory, and whether the process restarted since
  call            \* the call of a pure function under test and its result

\* the state of VaultService, the file system and the runtime
svars == <<now, lockTimeoutMs, session, lockTimer, timers, vaultPath, tmpPath, ops,
           resp, nextToken, nextRand>>

\* the state of the RateLimiter and of the routes that await an unlock
lvars == <<windowMs, maxAttempts, blockDurationMs, attempts, routes>>

vars == <<svars, lvars, passed, history, call>>

Slots == 1..MaxInflight

\* this.session === undefined
NoSession == [undefined |-> TRUE]
\* this.lockTimer === undefined
NoTimer == 0

\* what a path holds: nothing, a file opened with truncation whose data has
\* not arrived, a file whose bytes come from two writers, or a complete text
NoFile == [kind |-> "none"]
Truncated == [kind |-> "truncated"]
Garbled == [kind |-> "garbled"]
Complete(vault) == [kind |-> "complete", text |-> JSONstringify(vault)]

Idle == [kind |-> "idle", pc |-> "idle"]
InFlight(o) == {s \in Slots : o[s].kind # "idle"}
WritePcs == {"mkdir", "open", "write", "rename", "chmod"}
MutationKinds == {"addEntry", "updateEntry", "deleteEntry"}

Passwords == {<<"p", "w">>, <<"s", "s">>}

\* request bodies of POST /api/entries
AddPayloads ==
  { [site |-> <<"c">>, domain |-> <<"W", "W", "W", ".", "a", ".", "c">>,
     username |-> <<"a">>, password |-> <<"p">>],
    [site |-> <<"A">>, domain |-> <<"a", ".", "c">>,
     username |-> <<"a">>, password |-> <<"s">>, notes |-> <<>>] }

\* request bodies of PUT /api/entries/:id
UpdatePayloads ==
  { [password |-> <<"t">>,
     domain |-> <<"h", "t", "t", "p", "s", ":", "/", "/", "c", ".", "a", "/", "p">>] }

\* request bodies of PUT /api/entries/:id that name fields of the entry the
\* service assigns
IdentityPatches ==
  { [password |-> <<"t">>], [id |-> 0], [createdAt |-> 1],
    [username |-> <<"c">>, id |-> 9] }

\* search strings of GET /api/entries; <<>> stands for no query
Queries == {<<>>, <<" ", "A">>}

\* domains asked by GET /api/autofill
TargetDomains == {<<"w", ".", "a", ".", "c">>}

Merge(a, b) == [f \in DOMAIN a \cup DOMAIN b |-> IF f \in DOMAIN b THEN b[f] ELSE a[f]]

\* what an operation that returned in this step hands to its caller: op is the
\* operation, status "ok" and data what it returns; for an operation that
\* threw, op is "throw" and status the message of the Error
Response(op, status, data) == [op |-> op, status |-> status, data |-> data]

\* no operation returned or threw in this step
Quiet == Response("none", "none", <<>>)

(***************************************************************************)
(* VaultService: timer and session helpers.                                *)
(***************************************************************************)
\* status()
status ==
  [locked |-> session = NoSession,
   entryCount |-> IF session = NoSession THEN 0 ELSE Len(session.vault.entries),
   lastActivity |-> IF session = NoSession THEN -1 ELSE session.lastActivity]

\* clearLockTimer(): the pending timers after clearTimeout(this.lockTimer)
clearLockTimer(handle, pending) == {t \in pending : t.id # handle}

\* setTimeout: a handle no pending timer has
NewTimerId(pending) ==
  CHOOSE i \in 1..(Cardinality(pending) + 1) : \A t \in pending : t.id # i

\* scheduleLock() that clears the timer and sets none
scheduleLockNever(handle, pending) ==
  [lockTimer |-> NoTimer, timers |-> clearLockTimer(handle, pending)]

\* scheduleLock() that sets a timer without clearing the one before
scheduleLockNoClear(handle, pending) ==
  IF lockTimeoutMs <= 0
  THEN [lockTimer |-> NoTimer, timers |-> clearLockTimer(handle, pending)]
  ELSE [lockTimer |-> NewTimerId(pending),
        timers |-> pending \cup {[id |-> NewTimerId(pending),
                                  deadline |-> now + lockTimeoutMs]}]

\* scheduleLock() that does not look at lockTimeoutMs
scheduleLockAlways(handle, pending) ==
  LET cleared == clearLockTimer(handle, pending)
  IN [lockTimer |-> NewTimerId(cleared),
      timers |-> cleared \cup {[id |-> NewTimerId(cleared),
                                deadline |-> now + lockTimeoutMs]}]

\* scheduleLock(): [lockTimer, timers] afterwards
scheduleLock(handle, pending) ==
  LET cleared == clearLockTimer(handle, pending)
  IN IF lockTimeoutMs <= 0
     THEN [lockTimer |-> NoTimer, timers |-> cleared]
     ELSE [lockTimer |-> NewTimerId(cleared),
           timers |-> cleared \cup {[id |-> NewTimerId(cleared),
                                     deadline |-> now + lockTimeoutMs]}]

\* requireSession(token) that does not compare the token
requireSessionAnyToken(token) ==
  IF session = NoSession THEN "LOCKED" ELSE "ok"

\* requireSession(token): the error thrown, or "ok"
requireSession(token) ==
  IF session = NoSession THEN "LOCKED"
  ELSE IF session.token # token THEN "INVALID_SESSION"
  ELSE "ok"

\* this.session.lastActivity = Date.now()
Active(sess) == [sess EXCEPT !.lastActivity = now]

\* tokens a caller may present: every token handed out so far and a made-up one
PresentedTokens == 0..nextToken

(***************************************************************************)
(* String.prototype.localeCompare and Array.prototype.sort (stable).       *)
(***************************************************************************)
CollationRank ==
  (" " :> 1) @@ ("." :> 2) @@ ("/" :> 3) @@ (":" :> 4) @@ ("a" :> 5) @@ ("c" :> 6) @@
  ("h" :> 7) @@ ("p" :> 8) @@ ("s" :> 9) @@ ("t" :> 10) @@ ("w" :> 11)

\* lexicographic comparison of two sequences of numbers: -1, 0 or 1
RECURSIVE CompareKeys(_, _)
CompareKeys(a, b) ==
  IF a = <<>> /\ b = <<>> THEN 0
  ELSE IF a = <<>> THEN -1
  ELSE IF b = <<>> THEN 1
  ELSE IF Head(a) < Head(b) THEN -1
  ELSE IF Head(a) > Head(b) THEN 1
  ELSE CompareKeys(Tail(a), Tail(b))

\* letters first, then lower case before upper case
localeCompare(a, b) ==
  LET primary(x) ==
        [i \in 1..Len(x) |->
           CollationRank[IF x[i] \in DOMAIN UpperToLower THEN UpperToLower[x[i]] ELSE x[i]]]
      tertiary(x) == [i \in 1..Len(x) |-> IF x[i] \in DOMAIN UpperToLower THEN 1 ELSE 0]
  IN IF CompareKeys(primary(a), primary(b)) # 0 THEN CompareKeys(primary(a), primary(b))
     ELSE CompareKeys(tertiary(a), tertiary(b))

\* insert e after every element that does not compare greater than it
RECURSIVE InsertSorted(_, _)
InsertSorted(sorted, e) ==
  IF sorted = <<>> THEN <<e>>
  ELSE IF localeCompare(Head(sorted).site, e.site) > 0 THEN <<e>> \o sorted
  ELSE <<Head(sorted)>> \o InsertSorted(Tail(sorted), e)

RECURSIVE SortBySite(_)
SortBySite(entries) ==
  IF entries = <<>> THEN <<>>
  ELSE InsertSorted(SortBySite(SubSeq(entries, 1, Len(entries) - 1)), entries[Len(entries)])

(***************************************************************************)
(* VaultService: operations that finish without awaiting anything.         *)
(***************************************************************************)
\* the response of the previous step has gone out
Ready == resp = Quiet

\* res.json(...): the response leaves, the next event can be handled
Deliver ==
  /\ resp # Quiet
  /\ resp' = Quiet
  /\ UNCHANGED <<now, lockTimeoutMs, session, lockTimer, timers, vaultPath, tmpPath, ops,
                 nextToken, nextRand>>

\* requireSession that touches the session before it compares the token
RejectedTouching(err) ==
  /\ resp' = Response("throw", err, <<>>)
  /\ IF session = NoSession
     THEN UNCHANGED <<session, lockTimer, timers>>
     ELSE /\ session' = [session EXCEPT !.lastActivity = now]
          /\ UNCHANGED <<lockTimer, timers>>
  /\ UNCHANGED <<now, lockTimeoutMs, vaultPath, tmpPath, ops, nextToken, nextRand>>

\* an authenticated call that requireSession rejects with err
Rejected(err) ==
  /\ resp' = Response("throw", err, <<>>)
  /\ UNCHANGED <<now, lockTimeoutMs, session, lockTimer, timers, vaultPath, tmpPath, ops,
                 nextToken, nextRand>>

\* touch() that does not call scheduleLock()
touchStale(sess) ==
  /\ session' = Active(sess)
  /\ UNCHANGED <<lockTimer, timers>>

\* touch(), for a session that exists; sess is the session the caller goes on
\* to keep (the session itself, or the session with its entries changed)
touch(sess) ==
  /\ session' = Active(sess)
  /\ lockTimer' = scheduleLock(lockTimer, timers).lockTimer
  /\ timers' = scheduleLock(lockTimer, timers).timers

\* GET /api/status
Status ==
  /\ Ready
  /\ resp' = Response("status", "ok", status)
  /\ UNCHANGED <<now, lockTimeoutMs, session, lockTimer, timers, vaultPath, tmpPath, ops,
                 nextToken, nextRand>>

\* lock() that does not call clearLockTimer()
lockKeepTimer(pending) ==
  /\ timers' = pending
  /\ lockTimer' = lockTimer
  /\ session' = NoSession

\* lock(), with the timers that are pending when it runs
lock(pending) ==
  /\ timers' = clearLockTimer(lockTimer, pending)
  /\ lockTimer' = NoTimer
  /\ session' = NoSession

\* POST /api/lock
Lock ==
  /\ Ready
  /\ lock(timers)
  /\ resp' = Response("lock", "ok", <<>>)
  /\ UNCHANGED <<now, lockTimeoutMs, vaultPath, tmpPath, ops, nextToken, nextRand>>

\* a pending timer whose delay has passed leaves the timer list and runs its
\* callback, () => this.lock()
TimerFire ==
  \E t \in timers :
    /\ Ready
    /\ t.deadline <= now
    /\ lock(timers \ {t})
    /\ resp' = Quiet
    /\ UNCHANGED <<now, lockTimeoutMs, vaultPath, tmpPath, ops, nextToken, nextRand>>

\* time passes; a timer that is due runs before the clock moves on
Tick ==
  /\ Ready
  /\ now < MaxTime
  /\ \A t \in timers : t.deadline > now
  /\ now' = now + 1
  /\ resp' = Quiet
  /\ UNCHANGED <<lockTimeoutMs, session, lockTimer, timers, vaultPath, tmpPath, ops,
                 nextToken, nextRand>>

touchSession(token) ==
  /\ Ready
  /\ IF requireSession(token) # "ok" THEN Rejected(requireSession(token))
     ELSE /\ touch(session)
          /\ resp' = Response("touchSession", "ok", <<>>)
          /\ UNCHANGED <<now, lockTimeoutMs, vaultPath, tmpPath, ops, nextToken, nextRand>>

getEntries(token, query) ==
  /\ Ready
  /\ IF requireSession(token) # "ok" THEN Rejected(requireSession(token))
     ELSE LET normalizedQuery == toLowerCase(trim(query))
              keep(entry) ==
                \/ normalizedQuery = <<>>
                \/ includes(toLowerCase(entry.site), normalizedQuery)
                \/ includes(toLowerCase(entry.username), normalizedQuery)
                \/ includes(toLowerCase(entry.domain), normalizedQuery)
          IN /\ touch(session)
             /\ resp' = Response("getEntries", "ok",
                                  SortBySite(SelectSeq(session.vault.entries, keep)))
             /\ UNCHANGED <<now, lockTimeoutMs, vaultPath, tmpPath, ops, nextToken, nextRand>>

getEntriesForDomain(token, domain) ==
  /\ Ready
  /\ IF requireSession(token) # "ok"
     THEN Rejected(requireSession(token))
     ELSE LET target == normalizeDomain(domain)
              keep(entry) == domainMatches(entry.domain, target)
          IN /\ touch(session)
             /\ resp' = Response("getEntriesForDomain", "ok",
                                  SelectSeq(session.vault.entries, keep))
             /\ UNCHANGED <<now, lockTimeoutMs, vaultPath, tmpPath, ops, nextToken, nextRand>>

(***************************************************************************)
(* Operations in flight.                                                   *)
(***************************************************************************)
\* the lowest free slot takes the next asynchronous call
FreeSlot(s) == /\ ops[s] = Idle
               /\ \A t \in Slots : t < s => ops[t] # Idle

\* ops once slot s runs op; alone records whether an operation has had the
\* service to itself since it was called
Begin(s, op) ==
  [t \in Slots |->
     IF t = s THEN Merge(op, [alone |-> InFlight(ops) = {}])
     ELSE IF ops[t] = Idle THEN Idle
     ELSE [ops[t] EXCEPT !.alone = FALSE]]

\* the value of a variable that holds no key yet
NoKey == [undefined |-> TRUE]

\* the value of a variable that holds no vault file yet
NoVault == [version |-> 0]

(***************************************************************************)
(* storage/vaultStorage.ts.  fd tells where the file a writer has open     *)
(* is now: at the temp path, renamed to the vault path, or unlinked.       *)
(***************************************************************************)
\* vaultExists(): fs.access resolves for whatever is at VAULT_PATH
vaultExists == vaultPath # NoFile

\* readVaultFile(): the parsed file, or the exception of readFile / JSON.parse
readVaultFile ==
  IF vaultPath.kind = "complete" /\ JSONparse(vaultPath.text).ok
  THEN [ok |-> TRUE, file |-> JSONparse(vaultPath.text).value]
  ELSE [ok |-> FALSE, file |-> NoVault]

\* what a file holds after a writer put vault at offset 0
Written(content, vault) ==
  IF content \in {Truncated, Complete(vault)} THEN {Complete(vault)}
  ELSE {Complete(vault), Garbled}

\* writeVaultFile: await fs.mkdir(vaultDir, {recursive: true}) resolves
Mkdir(s) ==
  /\ Ready
  /\ ops[s].pc = "mkdir"
  /\ ops' = [ops EXCEPT ![s].pc = "open"]
  /\ resp' = Quiet
  /\ UNCHANGED <<now, lockTimeoutMs, session, lockTimer, timers, vaultPath, tmpPath,
                 nextToken, nextRand>>

\* fs.writeFile(tmpPath, ...): the temp file is created or truncated
Open(s) ==
  /\ Ready
  /\ ops[s].pc = "open"
  /\ tmpPath' = Truncated
  /\ ops' = [ops EXCEPT ![s].pc = "write", ![s].fd = "tmp"]
  /\ resp' = Quiet
  /\ UNCHANGED <<now, lockTimeoutMs, session, lockTimer, timers, vaultPath, nextToken,
                 nextRand>>

\* fs.writeFile(tmpPath, ...): the text is written and the file closed
WriteData(s) ==
  /\ Ready
  /\ ops[s].pc = "write"
  /\ \/ /\ ops[s].fd = "tmp"
        /\ tmpPath' \in Written(tmpPath, ops[s].file)
        /\ UNCHANGED vaultPath
     \/ /\ ops[s].fd = "vault"
        /\ vaultPath' \in Written(vaultPath, ops[s].file)
        /\ UNCHANGED tmpPath
     \/ /\ ops[s].fd = "gone"
        /\ UNCHANGED <<vaultPath, tmpPath>>
  /\ ops' = [ops EXCEPT ![s].pc = "rename", ![s].fd = "none"]
  /\ resp' = Quiet
  /\ UNCHANGED <<now, lockTimeoutMs, session, lockTimer, timers, nextToken, nextRand>>

\* where an open file is after the temp path was renamed over the vault path
Renamed(fd) == IF fd = "tmp" THEN "vault" ELSE IF fd = "vault" THEN "gone" ELSE fd

\* the awaited file-system call of slot s rejects: the operation throws
Throws(s, err) ==
  /\ resp' = Response("throw", err, <<>>)
  /\ ops' = [ops EXCEPT ![s] = Idle]

\* writeVaultFile that unlinks the temp file instead of renaming it
RenameDropped(s) ==
  /\ Ready
  /\ ops[s].pc = "rename"
  /\ tmpPath' = NoFile
  /\ ops' = [ops EXCEPT ![s].pc = "chmod"]
  /\ resp' = Quiet
  /\ UNCHANGED <<now, lockTimeoutMs, session, lockTimer, timers, vaultPath, nextToken,
                 nextRand>>

\* await fs.rename(tmpPath, VAULT_PATH); ENOENT when the temp path is empty
Rename(s) ==
  /\ Ready
  /\ ops[s].pc = "rename"
  /\ IF tmpPath = NoFile
     THEN /\ Throws(s, "IO_ERROR")
          /\ UNCHANGED <<vaultPath, tmpPath>>
     ELSE /\ vaultPath' = tmpPath
          /\ tmpPath' = NoFile
          /\ ops' = [t \in Slots |->
                       IF t = s THEN [ops[s] EXCEPT !.pc = "chmod"]
                       ELSE IF ops[t] = Idle THEN Idle
                       ELSE [ops[t] EXCEPT !.fd = Renamed(ops[t].fd)]]
          /\ resp' = Quiet
  /\ UNCHANGED <<now, lockTimeoutMs, session, lockTimer, timers, nextToken, nextRand>>

\* mkdir, open, write, rename, chmod or readFile fails (EACCES, ENOSPC, EIO, ...)
FsError(s) ==
  /\ Ready
  /\ ops[s].pc \in WritePcs \cup {"read"}
  /\ Throws(s, "IO_ERROR")
  /\ UNCHANGED <<now, lockTimeoutMs, session, lockTimer, timers, vaultPath, tmpPath,
                 nextToken, nextRand>>

(***************************************************************************)
(* VaultService.unlock.                                                    *)
(***************************************************************************)
\* unlock(masterPassword, createIfMissing) is called: await vaultExists()
UnlockCall(s, masterPassword, createIfMissing) ==
  /\ Ready
  /\ FreeSlot(s)
  /\ nextRand < MaxCalls
  /\ ops' = Begin(s, [kind |-> "unlock", pc |-> "access", pw |-> masterPassword,
                       create |-> createIfMissing, rand |-> nextRand + 1,
                       file |-> NoVault, key |-> NoKey, fd |-> "none", ret |-> <<>>])
  /\ nextRand' = nextRand + 1
  /\ resp' = Quiet
  /\ UNCHANGED <<now, lockTimeoutMs, session, lockTimer, timers, vaultPath, tmpPath,
                 nextToken>>

\* unlock that does not look at createIfMissing
UnlockAccessCreates(s) ==
  /\ Ready
  /\ ops[s].kind = "unlock"
  /\ ops[s].pc = "access"
  /\ IF vaultExists
     THEN /\ ops' = [ops EXCEPT ![s].pc = "read"]
          /\ resp' = Quiet
     ELSE /\ ops' = [ops EXCEPT ![s].pc = "deriveNew",
                                 ![s].key = deriveKey(ops[s].pw,
                                                      generateKdfParams(ops[s].rand))]
          /\ resp' = Quiet
  /\ UNCHANGED <<now, lockTimeoutMs, session, lockTimer, timers, vaultPath, tmpPath,
                 nextToken, nextRand>>

\* vaultExists() resolves
UnlockAccess(s) ==
  /\ Ready
  /\ ops[s].kind = "unlock"
  /\ ops[s].pc = "access"
  /\ IF vaultExists
     THEN \* await readVaultFile()
          /\ ops' = [ops EXCEPT ![s].pc = "read"]
          /\ resp' = Quiet
     ELSE IF ~ops[s].create
     THEN Throws(s, "NO_VAULT")
     ELSE \* encryptVault: generateKdfParams(), await deriveKey(...)
          /\ ops' = [ops EXCEPT ![s].pc = "deriveNew",
                                 ![s].key = deriveKey(ops[s].pw,
                                                      generateKdfParams(ops[s].rand))]
          /\ resp' = Quiet
  /\ UNCHANGED <<now, lockTimeoutMs, session, lockTimer, timers, vaultPath, tmpPath,
                 nextToken, nextRand>>

\* deriveKey resolves in encryptVault; writeVaultFile(vault) is called
UnlockDerivedNew(s) ==
  /\ Ready
  /\ ops[s].pc = "deriveNew"
  /\ LET emptyVault == [entries |-> <<>>]
         enc == encryptVault(emptyVault, ops[s].key, ops[s].key.kdf, ops[s].rand)
     IN ops' = [ops EXCEPT ![s].pc = "mkdir", ![s].file = enc.vault]
  /\ resp' = Quiet
  /\ UNCHANGED <<now, lockTimeoutMs, session, lockTimer, timers, vaultPath, tmpPath,
                 nextToken, nextRand>>

\* readVaultFile() resolves or throws; await decryptVault -> deriveKey(...)
UnlockRead(s) ==
  /\ Ready
  /\ ops[s].pc = "read"
  /\ IF readVaultFile.ok
     THEN /\ ops' = [ops EXCEPT ![s].pc = "derive", ![s].file = readVaultFile.file]
          /\ resp' = Quiet
     ELSE Throws(s, "IO_ERROR")
  /\ UNCHANGED <<now, lockTimeoutMs, session, lockTimer, timers, vaultPath, tmpPath,
                 nextToken, nextRand>>

\* unlock that keeps the token of the session it replaces
EstablishSameToken(s, key, kdf, vault, created) ==
  LET token == IF session = NoSession THEN nextToken + 1 ELSE session.token
  IN /\ session' = [token |-> token, key |-> key, kdf |-> kdf, vault |-> vault,
                     lastActivity |-> now]
     /\ lockTimer' = scheduleLock(lockTimer, timers).lockTimer
     /\ timers' = scheduleLock(lockTimer, timers).timers
     /\ nextToken' = nextToken + 1
     /\ resp' = Response("unlock", "ok",
                          [created |-> created, token |-> token,
                           entries |-> Len(vault.entries)])
     /\ ops' = [ops EXCEPT ![s] = Idle]

\* this.session = {token: uuidv4(), ...}; this.scheduleLock(); return {...}
Establish(s, key, kdf, vault, created) ==
  /\ session' = [token |-> nextToken + 1, key |-> key, kdf |-> kdf, vault |-> vault,
                  lastActivity |-> now]
  /\ lockTimer' = scheduleLock(lockTimer, timers).lockTimer
  /\ timers' = scheduleLock(lockTimer, timers).timers
  /\ nextToken' = nextToken + 1
  /\ resp' = Response("unlock", "ok",
                       [created |-> created, token |-> nextToken + 1,
                        entries |-> Len(vault.entries)])
  /\ ops' = [ops EXCEPT ![s] = Idle]

\* deriveKey resolves in decryptVault; decryptVaultWithKey, then the session
UnlockDerived(s) ==
  /\ Ready
  /\ ops[s].pc = "derive"
  /\ LET dec == decryptVault(ops[s].file, deriveKey(ops[s].pw, ops[s].file.kdf))
     IN IF dec.ok
        THEN Establish(s, dec.key, dec.kdf, dec.vault, FALSE)
        ELSE /\ Throws(s, dec.error)
             /\ UNCHANGED <<session, lockTimer, timers, nextToken>>
  /\ UNCHANGED <<now, lockTimeoutMs, vaultPath, tmpPath, nextRand>>

\* await fs.chmod(VAULT_PATH, 0o600) resolves and writeVaultFile returns: to
\* unlock, which sets the session, or to persist and the mutation, which returns
Chmod(s) ==
  /\ Ready
  /\ ops[s].pc = "chmod"
  /\ IF ops[s].kind = "unlock"
     THEN Establish(s, ops[s].key, ops[s].file.kdf, [entries |-> <<>>], TRUE)
     ELSE /\ resp' = Response(ops[s].kind, "ok", ops[s].ret)
          /\ ops' = [ops EXCEPT ![s] = Idle]
          /\ UNCHANGED <<session, lockTimer, timers, nextToken>>
  /\ UNCHANGED <<now, lockTimeoutMs, vaultPath, tmpPath, nextRand>>

(***************************************************************************)
(* VaultService: entry mutations.  Everything up to the first await runs   *)
(* in the step of the call: requireSession, the change of the in-memory    *)
(* vault, encryptVaultWithKey in persist, and the call of writeVaultFile.  *)
(***************************************************************************)
\* persist that encrypts the vault as it was before the change
PersistingStale(s, kind, sess, iv, ret) ==
  Begin(s, [kind |-> kind, pc |-> "mkdir", pw |-> <<>>, create |-> FALSE, rand |-> iv,
            file |-> encryptVaultWithKey(session.vault, sess.key, sess.kdf, iv),
            key |-> sess.key, fd |-> "none", ret |-> ret])

\* persist that draws a new salt and derives the key again
PersistingNewSalt(s, kind, sess, iv, ret) ==
  LET kdf == generateKdfParams(iv)
      key == deriveKey(sess.key.pw, kdf)
  IN Begin(s, [kind |-> kind, pc |-> "mkdir", pw |-> <<>>, create |-> FALSE,
               rand |-> iv, file |-> encryptVaultWithKey(sess.vault, key, kdf, iv),
               key |-> key, fd |-> "none", ret |-> ret])

\* persist(session) up to its await: the operation now in flight in slot s
Persisting(s, kind, sess, iv, ret) ==
  Begin(s, [kind |-> kind, pc |-> "mkdir", pw |-> <<>>, create |-> FALSE, rand |-> iv,
            file |-> encryptVaultWithKey(sess.vault, sess.key, sess.kdf, iv),
            key |-> sess.key, fd |-> "none", ret |-> ret])

\* Array.prototype.findIndex by id, 1-based; 0 when there is none
findIndex(entries, id) ==
  LET hits == {i \in 1..Len(entries) : entries[i].id = id}
  IN IF hits = {} THEN 0 ELSE CHOOSE i \in hits : \A j \in hits : i <= j

\* ids a caller may name: those of the stored entries and an unknown one
PresentedIds ==
  {-1} \cup (IF session = NoSession THEN {}
            ELSE {session.vault.entries[i].id : i \in 1..Len(session.vault.entries)})

addEntry(s, token, payload) ==
  /\ Ready
  /\ IF requireSession(token) # "ok" THEN Rejected(requireSession(token))
     ELSE /\ FreeSlot(s)
          /\ nextRand < MaxCalls
          /\ LET entry == Merge(payload, [domain |-> normalizeDomain(payload.domain),
                                          id |-> nextRand + 1,
                                          createdAt |-> now, updatedAt |-> now])
                 sess == [session EXCEPT !.vault.entries = Append(@, entry)]
             IN /\ touch(sess)
                /\ ops' = Persisting(s, "addEntry", sess, nextRand + 1, <<entry>>)
          /\ nextRand' = nextRand + 1
          /\ resp' = Quiet
          /\ UNCHANGED <<now, lockTimeoutMs, vaultPath, tmpPath, nextToken>>

updateEntry(s, token, id, payload) ==
  /\ Ready
  /\ IF requireSession(token) # "ok" THEN Rejected(requireSession(token))
     ELSE LET idx == findIndex(session.vault.entries, id)
          IN IF idx = 0
             THEN /\ touch(session)
                  /\ resp' = Response("throw", "NOT_FOUND", <<>>)
                  /\ UNCHANGED <<now, lockTimeoutMs, vaultPath, tmpPath, ops, nextToken,
                                 nextRand>>
             ELSE /\ FreeSlot(s)
                  /\ nextRand < MaxCalls
                  /\ LET existing == session.vault.entries[idx]
                         updated ==
                           Merge(Merge(existing, payload),
                                 [domain |-> IF "domain" \in DOMAIN payload
                                                /\ payload.domain # <<>>
                                             THEN normalizeDomain(payload.domain)
                                             ELSE existing.domain,
                                  updatedAt |-> now])
                         sess == [session EXCEPT !.vault.entries[idx] = updated]
                     IN /\ touch(sess)
                        /\ ops' = Persisting(s, "updateEntry", sess, nextRand + 1,
                                             <<updated>>)
                  /\ nextRand' = nextRand + 1
                  /\ resp' = Quiet
                  /\ UNCHANGED <<now, lockTimeoutMs, vaultPath, tmpPath, nextToken>>

deleteEntry(s, token, id) ==
  /\ Ready
  /\ IF requireSession(token) # "ok" THEN Rejected(requireSession(token))
     ELSE LET before == Len(session.vault.entries)
              keep(e) == e.id # id
              sess == [session EXCEPT !.vault.entries = SelectSeq(@, keep)]
          IN IF Len(sess.vault.entries) = before
             THEN /\ touch(session)
                  /\ resp' = Response("throw", "NOT_FOUND", <<>>)
                  /\ UNCHANGED <<now, lockTimeoutMs, vaultPath, tmpPath, ops, nextToken,
                                 nextRand>>
             ELSE /\ FreeSlot(s)
                  /\ nextRand < MaxCalls
                  /\ touch(sess)
                  /\ ops' = Persisting(s, "deleteEntry", sess, nextRand + 1, <<>>)
                  /\ nextRand' = nextRand + 1
                  /\ resp' = Quiet
                  /\ UNCHANGED <<now, lockTimeoutMs, vaultPath, tmpPath, nextToken>>

(***************************************************************************)
(* middleware/rateLimiter.ts and the POST /api/unlock route.               *)
(***************************************************************************)
\* the arguments the limiter is constructed with: a lockout longer than,
\* as long as and shorter than the window
LimiterConfigs ==
  { [windowMs |-> 300000, maxAttempts |-> 2, blockDurationMs |-> 300500],
    [windowMs |-> 300500, maxAttempts |-> 2, blockDurationMs |-> 300500],
    [windowMs |-> 600000, maxAttempts |-> 2, blockDurationMs |-> 300000] }

\* no create or mutation has returned yet, or none whose session outlived it
NoHistory == [saved |-> FALSE]
\* no function is under test
NoCall == [fn |-> "none"]

\* req.ip of the clients
ClientKeys == {"ip1", "ip2"}

\* this.attempts.get(key) === undefined
NoEntry == [undefined |-> TRUE]
\* entry.blockedUntil === undefined
NotBlocked == -1
\* no handler awaits the slot's unlock
NoRoute == "none"

\* new RateLimiter(): 15 minutes, 5 attempts, 1 hour
DefaultLimits == [windowMs |-> 15 * 60 * 1000, maxAttempts |-> 5,
                  blockDurationMs |-> 60 * 60 * 1000]

\* the period of setInterval(() => this.cleanup(), ...)
CleanupMs == 5 * 60 * 1000

\* Math.ceil(a / b) for a >= 0 and b > 0
ceil(a, b) == (a + b - 1) \div b

\* this.attempts after this.attempts.delete(key)
resetClient(key) == [attempts EXCEPT ![key] = NoEntry]

\* a limiter that looks at the window before it looks at the lockout
middlewareWindowFirst(key) ==
  LET entry == attempts[key]
  IN IF entry = NoEntry \/ entry.resetAt < now
     THEN [next |-> TRUE,
           attempts |-> [attempts EXCEPT ![key] = [count |-> 1,
                                                   resetAt |-> now + windowMs,
                                                   blockedUntil |-> NotBlocked]],
           retryAfter |-> 0]
     ELSE IF entry.blockedUntil # NotBlocked /\ entry.blockedUntil > now
     THEN [next |-> FALSE, attempts |-> attempts,
           retryAfter |-> ceil(entry.blockedUntil - now, 1000)]
     ELSE IF entry.count + 1 > maxAttempts
     THEN [next |-> FALSE,
           attempts |-> [attempts EXCEPT ![key].count = @ + 1,
                                         ![key].blockedUntil = now + blockDurationMs],
           retryAfter |-> ceil(blockDurationMs, 1000)]
     ELSE [next |-> TRUE,
           attempts |-> [attempts EXCEPT ![key].count = @ + 1],
           retryAfter |-> 0]

\* a limiter that locks out at the maxAttempts-th attempt of a window
middlewareOffByOne(key) ==
  LET entry == attempts[key]
  IN IF /\ entry # NoEntry
        /\ entry.blockedUntil # NotBlocked
        /\ entry.blockedUntil # 0
        /\ entry.blockedUntil > now
     THEN [next |-> FALSE, attempts |-> attempts,
           retryAfter |-> ceil(entry.blockedUntil - now, 1000)]
     ELSE IF entry = NoEntry \/ entry.resetAt < now
     THEN [next |-> TRUE,
           attempts |-> [attempts EXCEPT ![key] = [count |-> 1,
                                                   resetAt |-> now + windowMs,
                                                   blockedUntil |-> NotBlocked]],
           retryAfter |-> 0]
     ELSE IF entry.count + 1 >= maxAttempts
     THEN [next |-> FALSE,
           attempts |-> [attempts EXCEPT ![key].count = @ + 1,
                                         ![key].blockedUntil = now + blockDurationMs],
           retryAfter |-> ceil(blockDurationMs, 1000)]
     ELSE [next |-> TRUE,
           attempts |-> [attempts EXCEPT ![key].count = @ + 1],
           retryAfter |-> 0]

\* the middleware for a request of key at time t, on the entries of map:
\* whether next() is called, the entries afterwards, and the Retry-After
limit(map, t, key) ==
  LET entry == map[key]
  IN IF /\ entry # NoEntry
        /\ entry.blockedUntil # NotBlocked
        /\ entry.blockedUntil # 0
        /\ entry.blockedUntil > t
     THEN [next |-> FALSE, attempts |-> map,
           retryAfter |-> ceil(entry.blockedUntil - t, 1000)]
     ELSE IF entry = NoEntry \/ entry.resetAt < t
     THEN [next |-> TRUE,
           attempts |-> [map EXCEPT ![key] = [count |-> 1,
                                                   resetAt |-> t + windowMs,
                                                   blockedUntil |-> NotBlocked]],
           retryAfter |-> 0]
     ELSE IF entry.count + 1 > maxAttempts
     THEN [next |-> FALSE,
           attempts |-> [map EXCEPT ![key].count = @ + 1,
                                         ![key].blockedUntil = t + blockDurationMs],
           retryAfter |-> ceil(blockDurationMs, 1000)]
     ELSE [next |-> TRUE,
           attempts |-> [map EXCEPT ![key].count = @ + 1],
           retryAfter |-> 0]

\* RateLimiter.middleware() on a request of the client key
middleware(key) == limit(attempts, now, key)

\* a sweep that evicts every entry whose window has expired
cleanupIgnoresLockout ==
  /\ Ready
  /\ now >= CleanupMs
  /\ attempts' = [key \in ClientKeys |->
                    LET entry == attempts[key]
                    IN IF entry # NoEntry /\ entry.resetAt < now THEN NoEntry
                       ELSE entry]
  /\ UNCHANGED <<svars, windowMs, maxAttempts, blockDurationMs, routes, passed,
                 history, call>>

\* cleanup that does not look at the window of an entry
cleanupOpenWindow ==
  /\ Ready
  /\ now >= CleanupMs
  /\ attempts' = [key \in ClientKeys |->
                    LET entry == attempts[key]
                    IN IF /\ entry # NoEntry
                          /\ \/ entry.blockedUntil = NotBlocked
                             \/ entry.blockedUntil = 0
                             \/ entry.blockedUntil < now
                       THEN NoEntry
                       ELSE entry]
  /\ UNCHANGED <<svars, windowMs, maxAttempts, blockDurationMs, routes, passed,
                 history, call>>

\* RateLimiter.cleanup(): the periodic sweep
cleanup ==
  /\ Ready
  /\ now >= CleanupMs
  /\ attempts' = [key \in ClientKeys |->
                    LET entry == attempts[key]
                    IN IF /\ entry # NoEntry
                          /\ entry.resetAt < now
                          /\ \/ entry.blockedUntil = NotBlocked
                             \/ entry.blockedUntil = 0
                             \/ entry.blockedUntil < now
                       THEN NoEntry
                       ELSE entry]
  /\ UNCHANGED <<svars, windowMs, maxAttempts, blockDurationMs, routes, passed,
                 history, call>>

LIMITS ==
  [SITE_NAME_MAX |-> 200, DOMAIN_MAX |-> 253, USERNAME_MAX |-> 320,
   PASSWORD_MAX |-> 1000, NOTES_MAX |-> 5000,
   MASTER_PASSWORD_MIN |-> 8, MASTER_PASSWORD_MAX |-> 1000]

\* validateMasterPassword(body.masterPassword): "ok", or ValidationError
validateMasterPassword(body) ==
  IF "masterPassword" \notin DOMAIN body THEN "ValidationError"
  ELSE IF Len(body.masterPassword) < LIMITS.MASTER_PASSWORD_MIN THEN "ValidationError"
  ELSE IF Len(body.masterPassword) > LIMITS.MASTER_PASSWORD_MAX THEN "ValidationError"
  ELSE "ok"

\* body[f] is truthy: the field is there and is not the empty string
Truthy(body, f) == f \in DOMAIN body /\ body[f] # <<>>

\* validateVaultEntry(entry): "ok", or ValidationError
validateVaultEntry(entry) ==
  IF ~Truthy(entry, "site") \/ trim(entry.site) = <<>> THEN "ValidationError"
  ELSE IF Len(entry.site) > LIMITS.SITE_NAME_MAX THEN "ValidationError"
  ELSE IF ~Truthy(entry, "domain") \/ trim(entry.domain) = <<>> THEN "ValidationError"
  ELSE IF Len(entry.domain) > LIMITS.DOMAIN_MAX THEN "ValidationError"
  ELSE IF ~Truthy(entry, "username") \/ trim(entry.username) = <<>>
  THEN "ValidationError"
  ELSE IF Len(entry.username) > LIMITS.USERNAME_MAX THEN "ValidationError"
  ELSE IF ~Truthy(entry, "password") THEN "ValidationError"
  ELSE IF Len(entry.password) > LIMITS.PASSWORD_MAX THEN "ValidationError"
  ELSE IF "notes" \in DOMAIN entry /\ Len(entry.notes) > LIMITS.NOTES_MAX
  THEN "ValidationError"
  ELSE "ok"

\* a string of n characters
Long(n) == [i \in 1..n |-> "x"]

\* request bodies of POST /api/entries, valid and not
PostBodies ==
  LET body == [site |-> <<"c">>, domain |-> <<"W", "W", "W", ".", "a", ".", "c">>,
               username |-> <<"a">>, password |-> <<"p">>]
  IN { body, Merge(body, [notes |-> <<>>]), Merge(body, [site |-> <<>>]),
       Merge(body, [username |-> <<" ">>]), Merge(body, [password |-> <<>>]),
       Merge(body, [site |-> Long(LIMITS.SITE_NAME_MAX + 1)]),
       Merge(body, [site |-> Long(LIMITS.SITE_NAME_MAX)]),
       [site |-> <<"c">>, username |-> <<"a">>, password |-> <<"p">>] }

\* request bodies of PUT /api/entries/:id, valid and not
PutBodies ==
  { [password |-> <<"t">>], [site |-> <<>>], [site |-> <<" ">>],
    [username |-> <<>>, password |-> <<"t">>], [password |-> <<>>],
    [notes |-> <<>>], [username |-> Long(LIMITS.USERNAME_MAX + 1)],
    [domain |-> <<>>, site |-> <<"d">>] }

\* POST /api/entries: validateVaultEntry(payload), then addEntry
PostEntries(s, token, body) ==
  IF validateVaultEntry(body) # "ok"
  THEN Ready /\ Rejected("ValidationError")
  ELSE addEntry(s, token, body)

\* what PUT /api/entries/:id hands to validateVaultEntry
Placeholders(body) ==
  LET placeholder == <<"p", "l", "a", "c", "e", "h", "o", "l", "d", "e", "r">>
      fields ==
        [site |-> IF Truthy(body, "site") THEN body.site ELSE placeholder,
         domain |-> IF Truthy(body, "domain") THEN body.domain
                    ELSE placeholder \o <<".", "c", "o", "m">>,
         username |-> IF Truthy(body, "username") THEN body.username ELSE placeholder,
         password |-> IF Truthy(body, "password") THEN body.password ELSE placeholder]
  IN IF "notes" \in DOMAIN body THEN Merge(fields, [notes |-> body.notes]) ELSE fields

\* PUT /api/entries/:id: the partial validation, then updateEntry with the body
PutEntries(s, token, id, body) ==
  IF /\ \/ Truthy(body, "site")
        \/ Truthy(body, "domain")
        \/ Truthy(body, "username")
        \/ Truthy(body, "password")
        \/ "notes" \in DOMAIN body
     /\ validateVaultEntry(Placeholders(body)) # "ok"
  THEN Ready /\ Rejected("ValidationError")
  ELSE updateEntry(s, token, id, body)

\* Boolean(body.createIfMissing)
createIfMissing(body) == "createIfMissing" \in DOMAIN body /\ body.createIfMissing

\* request bodies of POST /api/unlock
UnlockBodies ==
  { [masterPassword |-> <<"h", "u", "n", "t", "e", "r", "2", "p">>],
    [masterPassword |-> <<"p", "a", "s", "s", "w", "o", "r", "d">>,
     createIfMissing |-> FALSE],
    [masterPassword |-> <<"p", "w">>, createIfMissing |-> TRUE],
    [createIfMissing |-> TRUE] }

\* the pass times of a key that are less than windowMs old
Recent(times) == SelectSeq(times, LAMBDA t : t + windowMs > now)

\* POST /api/unlock from the client key: the limiter's middleware, then the
\* handler up to its await of vaultService.unlock
PostUnlock(key, s, body) ==
  /\ Ready
  /\ attempts' = middleware(key).attempts
  /\ IF ~middleware(key).next
     THEN /\ resp' = Response("POST /api/unlock", "429",
                              [retryAfter |-> middleware(key).retryAfter])
          /\ UNCHANGED <<now, lockTimeoutMs, session, lockTimer, timers, vaultPath,
                         tmpPath, ops, nextToken, nextRand, routes, passed>>
     ELSE /\ passed' = [passed EXCEPT ![key] = Append(Recent(@), now)]
          /\ IF validateMasterPassword(body) # "ok"
             THEN /\ resp' = Response("POST /api/unlock", "400", <<>>)
                  /\ UNCHANGED <<now, lockTimeoutMs, session, lockTimer, timers,
                                 vaultPath, tmpPath, ops, nextToken, nextRand, routes>>
             ELSE /\ UnlockCall(s, body.masterPassword, createIfMissing(body))
                  /\ routes' = [routes EXCEPT ![s] = key]
  /\ UNCHANGED <<windowMs, maxAttempts, blockDurationMs, history, call>>

\* a handler that calls resetClient(req) in its catch block as well
RoutedAlways(s) ==
  /\ routes' = IF ops'[s] = Idle THEN [routes EXCEPT ![s] = NoRoute] ELSE routes
  /\ attempts' = IF ops'[s] = Idle THEN resetClient(routes[s]) ELSE attempts
  /\ passed' = IF ops'[s] = Idle THEN [passed EXCEPT ![routes[s]] = <<>>] ELSE passed
  /\ UNCHANGED <<windowMs, maxAttempts, blockDurationMs, history, call>>

\* the rest of the handler of POST /api/unlock, run by the step of slot s
\* that ends the awaited unlock: resetClient(req) after a return, the catch
\* block after a throw
Routed(s) ==
  /\ routes' = IF ops'[s] = Idle THEN [routes EXCEPT ![s] = NoRoute] ELSE routes
  /\ attempts' = IF ops'[s] = Idle /\ resp'.op = "unlock"
                 THEN resetClient(routes[s])
                 ELSE attempts
  /\ passed' = IF ops'[s] = Idle /\ resp'.op = "unlock"
               THEN [passed EXCEPT ![routes[s]] = <<>>]
               ELSE passed
  /\ UNCHANGED <<windowMs, maxAttempts, blockDurationMs, history, call>>

\* a handler that puts the message of the error into the body
unlockResponseVerbose(r) ==
  IF r.op = "unlock" THEN [status |-> 200, body |-> r.data]
  ELSE IF r.status = "NO_VAULT"
  THEN [status |-> 404,
        body |-> [error |-> "Vault not found. Pass createIfMissing to initialize."]]
  ELSE [status |-> 401, body |-> [error |-> r.status]]

\* what the handler of POST /api/unlock sends for what unlock returned or threw
unlockResponse(r) ==
  IF r.op = "unlock" THEN [status |-> 200, body |-> r.data]
  ELSE IF r.status = "NO_VAULT"
  THEN [status |-> 404,
        body |-> [error |-> "Vault not found. Pass createIfMissing to initialize."]]
  ELSE [status |-> 401, body |-> [error |-> "Invalid master password"]]

\* the clock advances from one sweep of the limiter to the next
ClockSteps == {CleanupMs}

\* time passes
Elapse(d) ==
  /\ Ready
  /\ now + d <= MaxSweeps * CleanupMs
  /\ \A t \in timers : t.deadline >= now + d
  /\ now' = now + d
  /\ resp' = Quiet
  /\ passed' = [key \in ClientKeys |->
                  SelectSeq(passed[key], LAMBDA t : t + windowMs > now + d)]
  /\ UNCHANGED <<lockTimeoutMs, session, lockTimer, timers, vaultPath, tmpPath, ops,
                 nextToken, nextRand, lvars, history, call>>

(***************************************************************************)
(* passwordGenerator.ts.  A number is [n |-> n, half |-> h], which stands  *)
(* for n, or for n + 0.5 when h is TRUE, or it is NaN.  crypto.randomInt   *)
(* draws from a stream: the k-th draw of stream is stream.a * k + stream.b.*)
(***************************************************************************)
Num(n) == [n |-> n, half |-> FALSE]
Half(n) == [n |-> n, half |-> TRUE]
NaN == [nan |-> TRUE]

\* Math.max(8, x)
mathMax8(x) ==
  IF x = NaN THEN NaN
  ELSE IF x.n >= 8 THEN x
  ELSE Num(8)

\* len < x, for an integer len
lessThan(len, x) ==
  IF x = NaN THEN FALSE
  ELSE IF x.half THEN len <= x.n
  ELSE len < x.n

DEFAULT_OPTIONS ==
  [length |-> Num(20), uppercase |-> TRUE, lowercase |-> TRUE, numbers |-> TRUE,
   symbols |-> TRUE]

CHARSETS ==
  [uppercase |-> <<"A", "B", "C", "D", "E", "F", "G", "H", "I", "J", "K", "L", "M", "N",
                 "O", "P", "Q", "R", "S", "T", "U", "V", "W", "X", "Y", "Z">>,
   lowercase |-> <<"a", "b", "c", "d", "e", "f", "g", "h", "i", "j", "k", "l", "m", "n",
                 "o", "p", "q", "r", "s", "t", "u", "v", "w", "x", "y", "z">>,
   numbers |-> <<"0", "1", "2", "3", "4", "5", "6", "7", "8", "9">>,
   symbols |-> <<"!", "@", "#", "$", "%", "^", "&", "*", "(", ")", "-", "_", "=", "+",
               "[", "]", "{", "}", ";", ":", ",", ".", "<", ">", "?">>]

\* crypto.randomInt(0, max), the k-th draw
randomInt(stream, k, max) == (stream.a * k + stream.b) % max

\* the while loop: draws from allChars until passwordChars is long enough;
\* k draws were made before
RECURSIVE fillChars(_, _, _, _, _)
fillChars(passwordChars, length, allChars, stream, k) ==
  IF lessThan(Len(passwordChars), length)
  THEN fillChars(Append(passwordChars,
                        allChars[randomInt(stream, k + 1, Len(allChars)) + 1]),
                 length, allChars, stream, k + 1)
  ELSE passwordChars

\* the Fisher-Yates loop from index i down to 1 (0-based)
RECURSIVE shuffle(_, _, _, _)
shuffle(passwordChars, i, stream, k) ==
  IF i > 0
  THEN LET j == randomInt(stream, k + 1, i + 1)
           swapped == [passwordChars EXCEPT ![i + 1] = passwordChars[j + 1],
                                            ![j + 1] = passwordChars[i + 1]]
       IN shuffle(swapped, i - 1, stream, k + 1)
  ELSE passwordChars

RECURSIVE join(_)
join(seqs) == IF seqs = <<>> THEN <<>> ELSE Head(seqs) \o join(Tail(seqs))

\* generatePassword that fills up to the requested length, without Math.max
generatePasswordNoMinimum(opts, stream) ==
  LET options == [f \in DOMAIN DEFAULT_OPTIONS |->
                    IF f \in DOMAIN opts THEN opts[f] ELSE DEFAULT_OPTIONS[f]]
      enabled(key) == options[key]
      enabledSets == SelectSeq(<<"uppercase", "lowercase", "numbers", "symbols">>, enabled)
      allChars == join([i \in 1..Len(enabledSets) |-> CHARSETS[enabledSets[i]]])
      first == [i \in 1..Len(enabledSets) |->
                  CHARSETS[enabledSets[i]][randomInt(stream, i,
                                                     Len(CHARSETS[enabledSets[i]])) + 1]]
      filled == fillChars(first, options.length, allChars, stream, Len(enabledSets))
  IN IF Len(enabledSets) = 0
     THEN [ok |-> FALSE, error |-> "At least one character set must be enabled",
           password |-> <<>>]
     ELSE [ok |-> TRUE, error |-> "",
           password |-> shuffle(filled, Len(filled) - 1, stream, Len(filled))]

\* generatePassword(opts) with the draws of stream
generatePassword(opts, stream) ==
  LET options == [f \in DOMAIN DEFAULT_OPTIONS |->
                    IF f \in DOMAIN opts THEN opts[f] ELSE DEFAULT_OPTIONS[f]]
      enabled(key) == options[key]
      enabledSets == SelectSeq(<<"uppercase", "lowercase", "numbers", "symbols">>, enabled)
      length == mathMax8(options.length)
      allChars == join([i \in 1..Len(enabledSets) |-> CHARSETS[enabledSets[i]]])
      first == [i \in 1..Len(enabledSets) |->
                  CHARSETS[enabledSets[i]][randomInt(stream, i,
                                                     Len(CHARSETS[enabledSets[i]])) + 1]]
      filled == fillChars(first, length, allChars, stream, Len(enabledSets))
  IN IF Len(enabledSets) = 0
     THEN [ok |-> FALSE, error |-> "At least one character set must be enabled",
           password |-> <<>>]
     ELSE [ok |-> TRUE, error |-> "",
           password |-> shuffle(filled, Len(filled) - 1, stream, Len(filled))]

\* the length a caller asks for: none, 4, 8, 9, 16, 12.5 and not a number
Lengths == {Num(4), Num(8), Num(9), Num(16), Half(12), NaN}

\* options of POST /api/generate-password
PasswordOptions ==
  LET flags == [{"uppercase", "lowercase", "numbers", "symbols"} -> BOOLEAN]
  IN {<< >>} \cup {[length |-> l] : l \in Lengths} \cup flags \cup
     {Merge(f, [length |-> l]) : f \in flags, l \in Lengths}

\* the streams of crypto.randomInt
MaxStride == 2
Streams == [a : 0..MaxStride, b : 0..3]

GeneratePassword(opts, stream) ==
  /\ call = NoCall
  /\ call' = [fn |-> "generatePassword", opts |-> opts,
              out |-> generatePassword(opts, stream)]
  /\ UNCHANGED <<svars, lvars, passed, history>>

(***************************************************************************)
(* utils/domain.ts called on its own, and through the autofill lookup.     *)
(***************************************************************************)
\* domains given to domainMatches: a.c, w.a.c, www.a.c, wa.c, A.C,
\* https://a.c/w, www.www.a.c and "a c", which new URL rejects
DomainInputs ==
  { <<"a", ".", "c">>, <<"w", ".", "a", ".", "c">>,
    <<"w", "w", "w", ".", "a", ".", "c">>, <<"w", "a", ".", "c">>,
    <<"A", ".", "C">>,
    <<"h", "t", "t", "p", "s", ":", "/", "/", "a", ".", "c", "/", "w">>,
    <<"w", "w", "w", ".", "w", "w", "w", ".", "a", ".", "c">>,
    <<"a", " ", "c">> }

\* request bodies of POST /api/entries for w.a.c and www.www.www.a.c
DomainPayloads ==
  { [site |-> <<"c">>, domain |-> d, username |-> <<"a">>, password |-> <<"p">>] :
      d \in { <<"w", ".", "a", ".", "c">>,
              <<"w", "w", "w", ".">> \o <<"w", "w", "w", ".">> \o
                <<"w", "w", "w", ".", "a", ".", "c">> } }

\* domainMatches(entryDomain, targetDomain) is called
DomainMatches(entryDomain, targetDomain) ==
  /\ call = NoCall
  /\ call' = [fn |-> "domainMatches", entry |-> entryDomain, target |-> targetDomain,
              out |-> domainMatches(entryDomain, targetDomain)]
  /\ UNCHANGED <<svars, lvars, passed, history>>

\* normalizeDomain(input) is called
NormalizeDomain(input) ==
  /\ call = NoCall
  /\ call' = [fn |-> "normalizeDomain", input |-> input, out |-> normalizeDomain(input)]
  /\ UNCHANGED <<svars, lvars, passed, history>>

(***************************************************************************)
(* crypto/vaultCrypto.ts called on its own, as its tests call it.          *)
(***************************************************************************)
\* salts and IVs that randomBytes returns to encryptVault
MaxNonce == 2

\* the VaultData that are encrypted
VaultDatas ==
  LET entry == [id |-> 1, site |-> <<"c">>, domain |-> <<"a", ".", "c">>,
                username |-> <<"a">>, password |-> <<"s">>, createdAt |-> 0,
                updatedAt |-> 0]
  IN { [entries |-> <<>>],
       [entries |-> <<entry>>],
       [entries |-> <<Merge(entry, [notes |-> <<"w">>])>>],
       [entries |-> <<Merge(entry, [notes |-> Undefined])>>],
       [entries |-> <<entry, Merge(entry, [id |-> 2, notes |-> <<>>])>>] }

\* what a test, or whoever can write the vault file, does to a VaultFile
Tampered(vault, how) ==
  CASE how = "hmac removed" -> [vault EXCEPT !.hmac = NoHmac]
    [] how = "cipher altered" ->
         [vault EXCEPT !.cipher.data.plain = JSONstringify([entries |-> <<>>, x |-> 0])]
    [] how = "tag altered" -> [vault EXCEPT !.cipher.authTag.iv = @ + 1]
    [] how = "hmac altered" -> [vault EXCEPT !.hmac.version = 0]
    [] how = "version 1" -> [vault EXCEPT !.version = 1, !.hmac = NoHmac]
    [] how = "version 3" -> [vault EXCEPT !.version = 3]
    [] how = "version 3, hmac removed" ->
         [vault EXCEPT !.version = 3, !.hmac = NoHmac]
    [] how = "version 3, cipher altered" ->
         [vault EXCEPT !.version = 3,
                       !.cipher.data.plain = JSONstringify([entries |-> <<>>, x |-> 0])]
    [] how = "salt altered" -> [vault EXCEPT !.kdf.salt = @ + 1]
    [] how = "N altered" -> [vault EXCEPT !.kdf.N = 2 * @]
    [] how = "iv altered" -> [vault EXCEPT !.cipher.iv = @ + 1]

Tamperings ==
  {"hmac removed", "cipher altered", "tag altered", "hmac altered", "version 1",
   "version 3",
   "version 3, hmac removed", "version 3, cipher altered", "salt altered",
   "N altered", "iv altered"}

\* encryptVault(data, masterPassword), drawing salt and iv
EncryptVault(data, masterPassword, salt, iv) ==
  /\ call = NoCall
  /\ LET kdf == generateKdfParams(salt)
         out == encryptVault(data, deriveKey(masterPassword, kdf), kdf, iv)
     IN call' = [fn |-> "encryptVault", data |-> data, password |-> masterPassword,
                 written |-> out.vault, vault |-> out.vault, key |-> out.key,
                 how |-> "none"]
  /\ UNCHANGED <<svars, lvars, passed, history>>

\* the VaultFile is changed before it is decrypted
Tamper(how) ==
  /\ call.fn = "encryptVault"
  /\ call.how = "none"
  /\ call' = [call EXCEPT !.vault = Tampered(@, how), !.how = how]
  /\ UNCHANGED <<svars, lvars, passed, history>>

\* decryptVault(vault, masterPassword)
DecryptVault(masterPassword) ==
  /\ call.fn = "encryptVault"
  /\ call' = Merge(call, [fn |-> "decryptVault", with |-> masterPassword,
                          out |-> decryptVault(call.vault,
                                               deriveKey(masterPassword, call.vault.kdf))])
  /\ UNCHANGED <<svars, lvars, passed, history>>

\* decryptVaultWithKey(vault, key) with the key that encryptVault returned
DecryptVaultWithKey ==
  /\ call.fn = "encryptVault"
  /\ call' = Merge(call, [fn |-> "decryptVaultWithKey",
                          out |-> decryptVaultWithKey(call.vault, call.key)])
  /\ UNCHANGED <<svars, lvars, passed, history>>

(***************************************************************************)
(* The process.                                                            *)
(***************************************************************************)
\* the process dies and is started again: memory is lost, the disk stays
Restart ==
  /\ Ready
  /\ session' = NoSession
  /\ lockTimer' = NoTimer
  /\ timers' = {}
  /\ ops' = [s \in Slots |-> Idle]
  /\ resp' = Quiet
  /\ UNCHANGED <<now, lockTimeoutMs, vaultPath, tmpPath, nextToken, nextRand>>

\* the vault file an earlier run of the program left behind: unlock with
\* createIfMissing wrote it for the password "hunter2p"
SeedVault ==
  encryptVault([entries |-> <<>>],
               deriveKey(<<"h", "u", "n", "t", "e", "r", "2", "p">>, generateKdfParams(0)),
               generateKdfParams(0), 0).vault

\* a vault file of version 1, as an earlier release wrote it: one entry, no hmac
LegacyVault ==
  LET kdf == generateKdfParams(0)
      entry == [id |-> 0, site |-> <<"c">>, domain |-> <<"a", ".", "c">>,
                username |-> <<"a">>, password |-> <<"s">>, createdAt |-> 0,
                updatedAt |-> 0]
      vault == encryptVault([entries |-> <<entry>>], deriveKey(<<"p", "w">>, kdf),
                            kdf, 0).vault
  IN [vault EXCEPT !.version = 1, !.hmac = NoHmac]

\* a vault file an earlier run left behind with two entries, for the password pw
PairVault ==
  LET kdf == generateKdfParams(0)
      entry(id, site) == [id |-> id, site |-> site, domain |-> <<"a", ".", "c">>,
                          username |-> <<"a">>, password |-> <<"s">>, createdAt |-> 0,
                          updatedAt |-> 0]
  IN encryptVault([entries |-> <<entry(0, <<"c">>), entry(7, <<"A">>)>>],
                  deriveKey(<<"p", "w">>, kdf), kdf, 0).vault

\* new VaultService(lockTimeoutMs) for a lockTimeoutMs of timeouts, on a machine
\* where VAULT_PATH holds one of files
Start(timeouts, files) ==
  /\ now = 0
  /\ lockTimeoutMs \in timeouts
  /\ session = NoSession
  /\ lockTimer = NoTimer
  /\ timers = {}
  /\ vaultPath \in files
  /\ tmpPath = NoFile
  /\ ops = [s \in Slots |-> Idle]
  /\ resp = Quiet
  /\ nextToken = 0
  /\ nextRand = 0

\* new RateLimiter(windowMs, maxAttempts, blockDurationMs) for the arguments
\* of one of configs; nothing has been recorded and no function is under test
Limiter(configs) ==
  /\ \E c \in configs : /\ windowMs = c.windowMs
                         /\ maxAttempts = c.maxAttempts
                         /\ blockDurationMs = c.blockDurationMs
  /\ attempts = [key \in ClientKeys |-> NoEntry]
  /\ routes = [s \in Slots |-> NoRoute]
  /\ passed = [key \in ClientKeys |-> <<>>]
  /\ history = NoHistory
  /\ call = NoCall

\* a step of the service that is called directly, as its tests call it: the
\* limiter, the histories and the function under test stay as they are
Direct == UNCHANGED <<lvars, passed, history, call>>

\* requests that are answered without awaiting anything
Requests ==
  \/ Deliver /\ Direct
  \/ Status /\ Direct
  \/ Lock /\ Direct
  \/ \E token \in PresentedTokens : touchSession(token) /\ Direct
  \/ \E token \in PresentedTokens, query \in Queries : getEntries(token, query) /\ Direct
  \/ \E token \in PresentedTokens, domain \in TargetDomains :
        getEntriesForDomain(token, domain) /\ Direct

\* unlock calls and their steps up to writeVaultFile, in the slots S
Unlocks(S) ==
  \/ \E s \in S, pw \in Passwords, create \in BOOLEAN : UnlockCall(s, pw, create) /\ Direct
  \/ \E s \in S : UnlockAccess(s) /\ Direct
  \/ \E s \in S : UnlockDerivedNew(s) /\ Direct
  \/ \E s \in S : UnlockRead(s) /\ Direct
  \/ \E s \in S : UnlockDerived(s) /\ Direct

\* calls of the entry mutations, in the slots S
Mutations(S) ==
  \/ \E s \in S, token \in PresentedTokens, payload \in AddPayloads :
        addEntry(s, token, payload) /\ Direct
  \/ \E s \in S, token \in PresentedTokens, id \in PresentedIds,
        payload \in UpdatePayloads : updateEntry(s, token, id, payload) /\ Direct
  \/ \E s \in S, token \in PresentedTokens, id \in PresentedIds :
        deleteEntry(s, token, id) /\ Direct

\* the steps of writeVaultFile, in the slots S
Storage(S) ==
  \/ \E s \in S : Mkdir(s) /\ Direct
  \/ \E s \in S : Open(s) /\ Direct
  \/ \E s \in S : WriteData(s) /\ Direct
  \/ \E s \in S : Rename(s) /\ Direct
  \/ \E s \in S : Chmod(s) /\ Direct

\* a file-system call fails, the process dies
Faults(S) ==
  \/ Restart /\ Direct
  \/ \E s \in S : FsError(s) /\ Direct

\* requests overlap and faults happen; the clock stands still, so that no
\* timer comes due
Init == Start({LockTimeout}, {NoFile}) /\ Limiter({DefaultLimits})

Next ==
  \/ Requests
  \/ Unlocks(Slots)
  \/ Mutations(Slots)
  \/ Storage(Slots)
  \/ Faults(Slots)

Spec == Init /\ [][Next]_vars

\* one request at a time, with faults; time passes and the auto-lock timer fires
InitTimed == Start({0, LockTimeout}, {NoFile}) /\ Limiter({DefaultLimits})

NextTimed ==
  \/ Requests
  \/ Unlocks({1})
  \/ Mutations({1})
  \/ Storage({1})
  \/ Faults({1})
  \/ Tick /\ Direct
  \/ TimerFire /\ Direct

SpecTimed == InitTimed /\ [][NextTimed]_vars

\* entry mutations overlap each other, an unlock overlaps no other unlock;
\* no file-system call fails and the process stays up
InitRace == Start({LockTimeout}, {NoFile}) /\ Limiter({DefaultLimits})

NextRace ==
  \/ Requests
  \/ Unlocks({1})
  \/ Mutations(Slots)
  \/ Storage(Slots)

SpecRace == InitRace /\ [][NextRace]_vars

\* the process starts on a machine that holds a vault file of version 1, or
\* none; requests overlap and faults happen
InitLegacy == Start({LockTimeout}, {NoFile, Complete(LegacyVault)}) /\ Limiter({DefaultLimits})

NextLegacy ==
  \/ Requests
  \/ Unlocks(Slots)
  \/ Mutations(Slots)
  \/ Storage(Slots)
  \/ Faults(Slots)

SpecLegacy == InitLegacy /\ [][NextLegacy]_vars

\* unlocks overlap each other and the authenticated calls, time passes and
\* the auto-lock timer fires; no file-system call fails
InitTimers == Start({0, LockTimeout}, {NoFile}) /\ Limiter({DefaultLimits})

NextTimers ==
  \/ Requests
  \/ Unlocks(Slots)
  \/ Storage(Slots)
  \/ Tick /\ Direct
  \/ TimerFire /\ Direct

SpecTimers == InitTimers /\ [][NextTimers]_vars

\* unlocks and entry mutations overlap each other; no file-system call fails
\* and the process stays up
InitOverlap == Start({LockTimeout}, {NoFile}) /\ Limiter({DefaultLimits})

NextOverlap ==
  \/ Requests
  \/ Unlocks(Slots)
  \/ Mutations(Slots)
  \/ Storage(Slots)

SpecOverlap == InitOverlap /\ [][NextOverlap]_vars

\* POST /api/entries and PUT /api/entries/:id on a vault that one client
\* creates, one request at a time; no file-system call fails
InitEntries == Start({LockTimeout}, {NoFile}) /\ Limiter({DefaultLimits})

NextEntries ==
  \/ Deliver /\ Direct
  \/ UnlockCall(1, <<"p", "w">>, TRUE) /\ Direct
  \/ UnlockAccess(1) /\ Direct
  \/ UnlockDerivedNew(1) /\ Direct
  \/ \E token \in PresentedTokens, body \in PostBodies :
        PostEntries(1, token, body) /\ Direct
  \/ \E token \in PresentedTokens, id \in PresentedIds, body \in PutBodies :
        PutEntries(1, token, id, body) /\ Direct
  \/ Storage({1})

SpecEntries == InitEntries /\ [][NextEntries]_vars

\* the operations that were in flight when lock() last destroyed a session
\* and have not ended since
Orphans == IF "orphans" \in DOMAIN history THEN history.orphans ELSE {}

\* the history of a step: lock() on a session leaves the slots of the
\* operations in flight on record, an operation that ends leaves the record
Orphaned ==
  /\ history' =
       [saved |-> FALSE,
        orphans |-> IF session # NoSession /\ session' = NoSession
                    THEN InFlight(ops)
                    ELSE {s \in Orphans : ops'[s] # Idle}]
  /\ UNCHANGED <<lvars, passed, call>>

\* one operation at a time and none of them fails; the session is locked, by
\* POST /api/lock or by the timer, while an unlock or a mutation is in flight
InitOrphan == Start({LockTimeout}, {NoFile}) /\ Limiter({DefaultLimits})

NextOrphan ==
  \/ Deliver /\ Orphaned
  \/ Lock /\ Orphaned
  \/ Tick /\ Orphaned
  \/ TimerFire /\ Orphaned
  \/ \E token \in PresentedTokens : touchSession(token) /\ Orphaned
  \/ \E pw \in Passwords, create \in BOOLEAN : UnlockCall(1, pw, create) /\ Orphaned
  \/ UnlockAccess(1) /\ Orphaned
  \/ UnlockDerivedNew(1) /\ Orphaned
  \/ UnlockRead(1) /\ Orphaned
  \/ UnlockDerived(1) /\ Orphaned
  \/ \E token \in PresentedTokens, payload \in AddPayloads :
        addEntry(1, token, payload) /\ Orphaned
  \/ \E token \in PresentedTokens, id \in PresentedIds, payload \in UpdatePayloads :
        updateEntry(1, token, id, payload) /\ Orphaned
  \/ \E token \in PresentedTokens, id \in PresentedIds :
        deleteEntry(1, token, id) /\ Orphaned
  \/ Mkdir(1) /\ Orphaned
  \/ Open(1) /\ Orphaned
  \/ WriteData(1) /\ Orphaned
  \/ Rename(1) /\ Orphaned
  \/ Chmod(1) /\ Orphaned

SpecOrphan == InitOrphan /\ [][NextOrphan]_vars

\* the history of a step: a create or a mutation that returns leaves the
\* password and the entries of its session on record
Recorded ==
  /\ history' =
       IF /\ resp'.op \in MutationKinds \cup {"unlock"}
          /\ resp'.op = "unlock" => resp'.data.created
       THEN IF session' = NoSession THEN NoHistory
            ELSE [saved |-> TRUE, restarted |-> FALSE, pw |-> session'.key.pw,
                  entries |-> session'.vault.entries]
       ELSE history
  /\ UNCHANGED <<lvars, passed, call>>

\* the process is restarted while no operation is in flight
RestartIdle ==
  /\ InFlight(ops) = {}
  /\ Restart
  /\ history' = IF history.saved THEN [history EXCEPT !.restarted = TRUE] ELSE history
  /\ UNCHANGED <<lvars, passed, call>>

\* one operation at a time and none of them fails; the process restarts
\* between operations
InitDurable == Start({LockTimeout}, {NoFile}) /\ Limiter({DefaultLimits})

NextDurable ==
  \/ Deliver /\ Recorded
  \/ Status /\ Recorded
  \/ Lock /\ Recorded
  \/ \E token \in PresentedTokens : touchSession(token) /\ Recorded
  \/ \E token \in PresentedTokens, query \in Queries :
        getEntries(token, query) /\ Recorded
  \/ \E token \in PresentedTokens, domain \in TargetDomains :
        getEntriesForDomain(token, domain) /\ Recorded
  \/ \E pw \in Passwords, create \in BOOLEAN : UnlockCall(1, pw, create) /\ Recorded
  \/ UnlockAccess(1) /\ Recorded
  \/ UnlockDerivedNew(1) /\ Recorded
  \/ UnlockRead(1) /\ Recorded
  \/ UnlockDerived(1) /\ Recorded
  \/ \E token \in PresentedTokens, payload \in AddPayloads :
        addEntry(1, token, payload) /\ Recorded
  \/ \E token \in PresentedTokens, id \in PresentedIds, payload \in UpdatePayloads :
        updateEntry(1, token, id, payload) /\ Recorded
  \/ \E token \in PresentedTokens, id \in PresentedIds :
        deleteEntry(1, token, id) /\ Recorded
  \/ Mkdir(1) /\ Recorded
  \/ Open(1) /\ Recorded
  \/ WriteData(1) /\ Recorded
  \/ Rename(1) /\ Recorded
  \/ Chmod(1) /\ Recorded
  \/ RestartIdle

SpecDurable == InitDurable /\ [][NextDurable]_vars

\* domainMatches on the DomainInputs; one client creates a vault, adds
\* entries for the domains of DomainPayloads and asks for the entries of the
\* DomainInputs
InitDomain == Start({LockTimeout}, {NoFile}) /\ Limiter({DefaultLimits})

NextDomain ==
  \/ \E entryDomain \in DomainInputs, targetDomain \in DomainInputs :
        DomainMatches(entryDomain, targetDomain)
  \/ \E input \in DomainInputs : NormalizeDomain(input)
  \/ Deliver /\ Direct
  \/ UnlockCall(1, <<"p", "w">>, TRUE) /\ Direct
  \/ UnlockAccess(1) /\ Direct
  \/ UnlockDerivedNew(1) /\ Direct
  \/ \E token \in PresentedTokens, payload \in DomainPayloads :
        addEntry(1, token, payload) /\ Direct
  \/ Storage({1})
  \/ \E token \in PresentedTokens, domain \in DomainInputs :
        getEntriesForDomain(token, domain) /\ Direct

SpecDomain == InitDomain /\ [][NextDomain]_vars

\* one client unlocks a vault that holds one entry, then adds, updates and
\* deletes entries, one request at a time; PUT bodies are the IdentityPatches
InitIdentity ==
  /\ Start({LockTimeout}, {Complete(LegacyVault), Complete(PairVault)})
  /\ Limiter({DefaultLimits})

NextIdentity ==
  \/ Deliver /\ Direct
  \/ \E pw \in Passwords : UnlockCall(1, pw, FALSE) /\ Direct
  \/ UnlockAccess(1) /\ Direct
  \/ UnlockRead(1) /\ Direct
  \/ UnlockDerived(1) /\ Direct
  \/ \E token \in PresentedTokens, payload \in AddPayloads :
        addEntry(1, token, payload) /\ Direct
  \/ \E token \in PresentedTokens, id \in PresentedIds, payload \in IdentityPatches :
        updateEntry(1, token, id, payload) /\ Direct
  \/ \E token \in PresentedTokens, id \in PresentedIds :
        deleteEntry(1, token, id) /\ Direct
  \/ Storage({1})

SpecIdentity == InitIdentity /\ [][NextIdentity]_vars

\* POST /api/unlock, one at a time, on a machine whose vault file is the
\* one written for the password hunter2p, or that file after a change
InitBoundary ==
  /\ Start({0}, {Complete(SeedVault)} \cup
                  {Complete(Tampered(SeedVault, how)) : how \in Tamperings})
  /\ Limiter({DefaultLimits})

NextBoundary ==
  \/ Deliver /\ Direct
  \/ \E key \in ClientKeys, body \in UnlockBodies : PostUnlock(key, 1, body)
  \/ UnlockAccess(1) /\ Routed(1)
  \/ UnlockRead(1) /\ Routed(1)
  \/ UnlockDerived(1) /\ Routed(1)

SpecBoundary == InitBoundary /\ [][NextBoundary]_vars

\* generatePassword on the PasswordOptions, for each stream of draws
InitPassword == Start({0}, {NoFile}) /\ Limiter({DefaultLimits})

NextPassword ==
  \E opts \in PasswordOptions, stream \in Streams : GeneratePassword(opts, stream)

SpecPassword == InitPassword /\ [][NextPassword]_vars

\* the functions of vaultCrypto.ts applied to the VaultDatas, for two
\* passwords, two salts and two IVs
InitCrypto == Start({0}, {NoFile}) /\ Limiter({DefaultLimits})

NextCrypto ==
  \/ \E data \in VaultDatas, pw \in Passwords, salt \in 1..MaxNonce,
        iv \in 1..MaxNonce :
        EncryptVault(data, pw, salt, iv)
  \/ \E how \in Tamperings : Tamper(how)
  \/ \E pw \in Passwords : DecryptVault(pw)
  \/ DecryptVaultWithKey

SpecCrypto == InitCrypto /\ [][NextCrypto]_vars

\* POST /api/unlock behind the limiter, one unlock awaited at a time, on a
\* machine without a vault or with the vault of an earlier run; no request
\* asks to create a vault, no auto-lock timer is configured, time passes
\* from sweep to sweep
InitThrottle == Start({0}, {NoFile, Complete(SeedVault)}) /\ Limiter(LimiterConfigs)

NextThrottle ==
  \/ Deliver /\ Direct
  \/ \E key \in ClientKeys, body \in UnlockBodies : PostUnlock(key, 1, body)
  \/ UnlockAccess(1) /\ Routed(1)
  \/ UnlockRead(1) /\ Routed(1)
  \/ UnlockDerived(1) /\ Routed(1)
  \/ \E d \in ClockSteps : Elapse(d)
  \/ cleanup

SpecThrottle == InitThrottle /\ [][NextThrottle]_vars

(***************************************************************************)
(* Properties.                                                             *)
(***************************************************************************)
\* this step is the call of an authenticated operation that presents token
AuthCall(token) ==
  \/ /\ resp'.op \in {"throw", "touchSession"}
     /\ touchSession(token)
  \/ /\ resp'.op \in {"throw", "getEntries"}
     /\ \E query \in Queries : getEntries(token, query)
  \/ /\ resp'.op \in {"throw", "getEntriesForDomain"}
     /\ \E domain \in TargetDomains : getEntriesForDomain(token, domain)
  \/ /\ resp'.op \in {"throw", "none"}
     /\ \E s \in Slots, payload \in AddPayloads : addEntry(s, token, payload)
  \/ /\ resp'.op \in {"throw", "none"}
     /\ \E s \in Slots, id \in PresentedIds, payload \in UpdatePayloads :
           updateEntry(s, token, id, payload)
  \/ /\ resp'.op \in {"throw", "none"}
     /\ \E s \in Slots, id \in PresentedIds : deleteEntry(s, token, id)

\* C1: with lockTimeoutMs > 0 a session never outlives lockTimeoutMs of
\* inactivity: the clock cannot pass lastActivity + lockTimeoutMs while the
\* session exists.  Once the session is gone, every authenticated call, whatever
\* token it presents, fails with LOCKED and status().locked is true.
AutoLock ==
  /\ [](lockTimeoutMs > 0 /\ session # NoSession
          => now <= session.lastActivity + lockTimeoutMs)
  /\ [][\A token \in PresentedTokens :
          session = NoSession /\ AuthCall(token)
            => resp'.status = "LOCKED" /\ status'.locked]_vars

\* a call is refused with LOCKED after a session was there and the timeout
\* has passed
AutoLocked ==
  /\ lockTimeoutMs > 0
  /\ now >= lockTimeoutMs
  /\ nextToken > 0
  /\ session = NoSession
  /\ timers = {}
  /\ resp.status = "LOCKED"

\* C2: a successful authenticated call sets lastActivity to the time of the
\* call and leaves exactly one timer, due lockTimeoutMs later; the pending
\* timer is always due at lastActivity + lockTimeoutMs, and the timer callback
\* never ends a session earlier than that.
SlidingExpiry ==
  /\ [][\A token \in PresentedTokens :
          requireSession(token) = "ok" /\ AuthCall(token)
            => /\ session'.lastActivity = now
               /\ lockTimeoutMs > 0
                    => timers' = {[id |-> lockTimer',
                                   deadline |-> now + lockTimeoutMs]}]_vars
  /\ [](lockTimeoutMs > 0 /\ session # NoSession
          => \A t \in timers : t.deadline = session.lastActivity + lockTimeoutMs)
  /\ [][TimerFire /\ session # NoSession
          => now >= session.lastActivity + lockTimeoutMs]_vars

\* the only session there ever was is alive more than lockTimeoutMs after it
\* added an entry
SessionExtended ==
  /\ lockTimeoutMs > 0
  /\ nextToken = 1
  /\ session # NoSession
  /\ \E i \in 1..Len(session.vault.entries) :
        /\ session.vault.entries[i].id >= 1
        /\ now > session.vault.entries[i].createdAt + lockTimeoutMs

\* C3: an authenticated call fails with LOCKED when there is no session and
\* with INVALID_SESSION when the token is not the session's; the session, the
\* files and the operations in flight stay as they are and the response
\* carries no data.
TokenGating ==
  [][\A token \in PresentedTokens :
       AuthCall(token)
         => /\ session = NoSession
                 => /\ resp'.status = "LOCKED"
                    /\ resp'.data = <<>>
                    /\ UNCHANGED <<session, vaultPath, tmpPath, ops>>
            /\ (session # NoSession /\ session.token # token)
                 => /\ resp'.status = "INVALID_SESSION"
                    /\ resp'.data = <<>>
                    /\ UNCHANGED <<session, vaultPath, tmpPath, ops>>]_vars

\* a call was refused with INVALID_SESSION while a session with an entry exists
WrongTokenRefused ==
  /\ session # NoSession
  /\ Len(session.vault.entries) > 0
  /\ resp.status = "INVALID_SESSION"

\* C4: the only token requireSession accepts is the last one handed out; a
\* successful unlock hands out a token never handed out before and makes it the
\* session's; a call that presents any other token while a session exists
\* fails with INVALID_SESSION.
SingleSession ==
  /\ [](\A token \in PresentedTokens : requireSession(token) = "ok" => token = nextToken)
  /\ [][resp'.op = "unlock" /\ resp'.status = "ok"
          => /\ session' # NoSession
             /\ session'.token = resp'.data.token
             /\ resp'.data.token \notin PresentedTokens]_vars
  /\ [][\A token \in PresentedTokens :
          session # NoSession /\ token # session.token /\ AuthCall(token)
            => resp'.status = "INVALID_SESSION"]_vars

\* a token is refused while the session of the second unlock exists
OldTokenRefused ==
  /\ session # NoSession
  /\ session.token = 2
  /\ resp.status = "INVALID_SESSION"

\* C5: POST /api/lock always answers ok and leaves no session and no timer,
\* pending or referenced; when there was no session it changes nothing; it can
\* be called in every state that handles a request.
LockIdempotent ==
  /\ [][resp'.op = "lock"
          => /\ resp'.status = "ok"
             /\ session' = NoSession
             /\ lockTimer' = NoTimer
             /\ timers' = {}
             /\ session = NoSession
                  => UNCHANGED <<session, lockTimer, timers, vaultPath, tmpPath, ops>>]_vars
  /\ [](Ready => ENABLED Lock)

\* lock() was called on a service that had been unlocked
LockedByCall ==
  /\ resp.op = "lock"
  /\ nextToken > 0
  /\ session = NoSession
  /\ lockTimer = NoTimer
  /\ timers = {}

\* C6: when vaultExists() resolves false for an unlock without createIfMissing,
\* the unlock throws NO_VAULT, no file appears at the vault path or the temp
\* path, and there is no session; without a vault file there never is one.
NoVaultUnlock ==
  /\ [][\A s \in Slots :
          UnlockAccess(s) /\ ~vaultExists /\ ~ops[s].create
            => /\ resp'.op = "throw"
               /\ resp'.status = "NO_VAULT"
               /\ session' = NoSession
               /\ vaultPath' = NoFile
               /\ UNCHANGED tmpPath]_vars
  /\ [](~vaultExists => session = NoSession)

\* an unlock was refused with NO_VAULT
NoVaultRefused ==
  /\ resp.status = "NO_VAULT"
  /\ vaultPath = NoFile
  /\ tmpPath = NoFile
  /\ session = NoSession

\* what the file at the vault path decrypts to under key
Decrypted(key) ==
  IF readVaultFile.ok THEN decryptVaultWithKey(readVaultFile.file, key)
  ELSE [ok |-> FALSE, error |-> "IO_ERROR", data |-> <<>>]

\* the vault file decrypts under the session key to the session's vault
DiskMatchesSession ==
  /\ Decrypted(session.key).ok
  /\ Decrypted(session.key).data = session.vault

\* C7: when an unlock that found no vault file returns, the file at the vault
\* path decrypts under its password to zero entries, the session is new with a
\* token never handed out before, zero entries, lastActivity at the time of
\* the return and a timer due lockTimeoutMs later; and a creating unlock sets
\* the session only in the step that ends its write.
CreateUnlock ==
  /\ [][\A s \in Slots :
          resp'.op = "unlock" /\ ops[s].kind = "unlock" /\ Chmod(s)
            => /\ resp'.status = "ok"
               /\ resp'.data.created
               /\ resp'.data.entries = 0
               /\ resp'.data.token \notin PresentedTokens
               /\ session' # NoSession
               /\ session'.token = resp'.data.token
               /\ session'.vault.entries = <<>>
               /\ session'.lastActivity = now
               /\ lockTimeoutMs > 0
                    => timers' = {[id |-> lockTimer', deadline |-> now + lockTimeoutMs]}
               /\ readVaultFile'.ok
               /\ LET dec == decryptVault(readVaultFile'.file,
                                          deriveKey(ops[s].pw, readVaultFile'.file.kdf))
                  IN dec.ok /\ dec.vault.entries = <<>>]_vars
  /\ [][\A s \in Slots :
          ops[s].kind = "unlock" /\ ops[s].create /\ ops'[s] # Idle
          /\ ops'[s].pc # ops[s].pc
            => session' = session]_vars

\* C8: a mutation that had the service to itself from its call on returns ok
\* only in the step that ends writeVaultFile, and then the vault path
\* holds the file it encrypted and, if the session is still there, that file
\* decrypts under the session key to the session's entries; no mutation
\* reports success in another step than the one that ends its write.
WriteThrough ==
  /\ [][\A s \in Slots :
          resp'.op \in MutationKinds /\ ops[s].kind \in MutationKinds /\ ops[s].alone
          /\ Chmod(s)
            => /\ resp'.status = "ok"
               /\ vaultPath' = Complete(ops[s].file)
               /\ session' # NoSession => DiskMatchesSession']_vars
  /\ [][resp'.op \in MutationKinds /\ resp'.status = "ok"
          => \E s \in Slots : ops[s].pc = "chmod" /\ ops[s].kind = resp'.op
                              /\ ops'[s] = Idle]_vars

\* an update returned ok and the file holds the updated entry
UpdateOnDisk ==
  /\ resp.op = "updateEntry"
  /\ resp.status = "ok"
  /\ session # NoSession
  /\ Len(session.vault.entries) > 0
  /\ DiskMatchesSession
  /\ session.vault.entries[1].password = <<"t">>

\* C9: an entry mutation in flight ends only by returning, never by throwing,
\* and whenever none is in flight any more the vault file decrypts under the
\* session key to the session's entries.
ConcurrentMutationsLand ==
  /\ [][\A s \in Slots :
          ops[s].kind \in MutationKinds /\ ops'[s] = Idle
            => resp'.op = ops[s].kind /\ resp'.status = "ok"]_vars
  /\ [](InFlight(ops) = {} /\ session # NoSession => DiskMatchesSession)

\* C10: the vault path never holds a partially written file, never loses its
\* file, and changes only in the rename of a writer, to the complete file of
\* that writer.
AtomicWrite ==
  /\ [](vaultPath.kind \in {"none", "complete"})
  /\ [][vaultPath # NoFile => vaultPath' # NoFile]_vars
  /\ [][vaultPath' # vaultPath
          => \E s \in Slots : /\ ops[s].pc = "rename"
                              /\ vaultPath' = Complete(ops[s].file)]_vars

\* C11: a restart between operations leaves the service locked, and every
\* unlock that ends after it with the password of the last create or mutation
\* that returned succeeds, is not a creation and has exactly the entries that
\* were in memory when that operation returned.
DurableAcrossRestart ==
  /\ [][Restart => status'.locked /\ vaultPath' = vaultPath]_vars
  /\ [][\A s \in Slots :
          /\ history.saved
          /\ history.restarted
          /\ ops[s].kind = "unlock"
          /\ ops[s].pw = history.pw
          /\ ops'[s] = Idle
          => /\ resp'.op = "unlock"
             /\ ~resp'.data.created
             /\ resp'.data.entries = Len(history.entries)
             /\ session' # NoSession
             /\ session'.vault.entries = history.entries]_vars

\* an unlock after a restart got back the entry the last mutation left
RestartedUnlock ==
  /\ history.saved
  /\ history.restarted
  /\ Len(history.entries) > 0
  /\ resp.op = "unlock"
  /\ session # NoSession
  /\ session.vault.entries = history.entries

\* the request of this step was let through by the limiter
Passes == ~(resp'.op = "POST /api/unlock" /\ resp'.status = "429")

\* C12: the first request of a key opens a window of windowMs with count 1 and
\* passes; in that window a request that finds a count below maxAttempts
\* passes and adds one; the request that finds the count at maxAttempts is
\* denied with 429 and sets the lockout deadline to now + blockDurationMs; a
\* key that was never locked out has let between 1 and maxAttempts requests
\* through.
ThrottleThreshold ==
  /\ [](\A key \in ClientKeys :
          attempts[key] # NoEntry /\ attempts[key].blockedUntil = NotBlocked
            => attempts[key].count \in 1..maxAttempts)
  /\ [][\A key \in ClientKeys, body \in UnlockBodies :
          PostUnlock(key, 1, body)
            => IF attempts[key] = NoEntry
               THEN /\ Passes
                    /\ attempts'[key] = [count |-> 1, resetAt |-> now + windowMs,
                                         blockedUntil |-> NotBlocked]
               ELSE (attempts[key].blockedUntil = NotBlocked
                       /\ now <= attempts[key].resetAt)
                    => IF attempts[key].count < maxAttempts
                       THEN /\ Passes
                            /\ attempts'[key] = [attempts[key] EXCEPT !.count = @ + 1]
                       ELSE /\ ~Passes
                            /\ attempts'[key].blockedUntil = now + blockDurationMs
                            /\ attempts'[key].resetAt = attempts[key].resetAt]_vars

\* the request after maxAttempts requests of one window was denied and the
\* key locked out for blockDurationMs
ThresholdDenied ==
  \E key \in ClientKeys :
    /\ attempts[key] # NoEntry
    /\ attempts[key].count = maxAttempts + 1
    /\ attempts[key].blockedUntil = now + blockDurationMs
    /\ resp.op = "POST /api/unlock"
    /\ resp.status = "429"

\* C13: a request of a key whose lockout deadline lies in the future is
\* denied with 429, whether or not the window has expired; it changes neither
\* the limiter nor the service, and its retry-after hint is the remaining
\* lockout in seconds, rounded up: at least 1, at most ceil(L / 1000).
LockedOutDenied ==
  /\ [](\A key \in ClientKeys :
          attempts[key] # NoEntry
            => attempts[key].blockedUntil <= now + blockDurationMs)
  /\ [][\A key \in ClientKeys, body \in UnlockBodies :
          (/\ PostUnlock(key, 1, body)
           /\ attempts[key] # NoEntry
           /\ attempts[key].blockedUntil > now)
            => /\ ~Passes
               /\ attempts' = attempts
               /\ ops' = ops
               /\ resp'.data.retryAfter >= 1
               /\ (resp'.data.retryAfter - 1) * 1000 < attempts[key].blockedUntil - now
               /\ attempts[key].blockedUntil - now <= resp'.data.retryAfter * 1000
               /\ (resp'.data.retryAfter - 1) * 1000 < blockDurationMs]_vars

\* a request was denied with a hint of one second for a key whose window has
\* expired and whose lockout has half a second left
DeniedAfterWindow ==
  \E key \in ClientKeys :
    /\ attempts[key] # NoEntry
    /\ attempts[key].resetAt < now
    /\ attempts[key].blockedUntil = now + 500
    /\ resp.op = "POST /api/unlock"
    /\ resp.status = "429"
    /\ resp.data.retryAfter = 1
    /\ \A other \in ClientKeys \ {key} : attempts[other] = NoEntry

\* C14: a request of a key whose lockout deadline has passed is let through
\* by the limiter, whatever windowMs, maxAttempts and blockDurationMs are.
PassesAfterLockout ==
  [][\A key \in ClientKeys, body \in UnlockBodies :
       (/\ PostUnlock(key, 1, body)
        /\ attempts[key] # NoEntry
        /\ attempts[key].blockedUntil # NotBlocked
        /\ attempts[key].blockedUntil < now)
         => Passes]_vars

\* C15: the step in which the unlock awaited by a handler of POST /api/unlock
\* returns removes the entry of the handler's key, count and lockout, and
\* leaves the key as a key never seen; the step in which it throws leaves the
\* limiter alone; an entry is removed in no other way than by that reset or
\* by the sweep of an entry whose window and lockout have expired.
ResetOnSuccess ==
  /\ [][\A s \in Slots :
          routes[s] # NoRoute /\ ops'[s] = Idle
            => IF resp'.op = "unlock" /\ resp'.status = "ok"
               THEN attempts' = [attempts EXCEPT ![routes[s]] = NoEntry]
               ELSE resp'.op = "throw" /\ attempts' = attempts]_vars
  /\ [][\A key \in ClientKeys :
          attempts[key] # NoEntry /\ attempts'[key] = NoEntry
            => \/ \E s \in Slots : /\ routes[s] = key
                                    /\ ops'[s] = Idle
                                    /\ resp'.op = "unlock"
               \/ /\ attempts[key].resetAt < now
                  /\ attempts[key].blockedUntil < now
                  /\ now >= CleanupMs]_vars

\* an unlock returned to its handler in the window its request opened, and
\* no key has an entry
ResetInsideWindow ==
  /\ now = 0
  /\ resp.op = "unlock"
  /\ resp.status = "ok"
  /\ nextRand > 1
  /\ \A key \in ClientKeys : attempts[key] = NoEntry

\* C16: while the lockout deadline of a key lies in the future, no step other
\* than the return of an unlock to a handler of that key removes the key's
\* entry or changes its deadline: not a denied request, not an unlock that
\* throws, not a request that fails validation, not the sweep.
LockoutStands ==
  [][\A key \in ClientKeys :
       (/\ attempts[key] # NoEntry
        /\ attempts[key].blockedUntil > now
        /\ ~\E s \in Slots : /\ routes[s] = key
                              /\ ops'[s] = Idle
                              /\ resp'.op = "unlock"
                              /\ resp'.status = "ok")
         => /\ attempts'[key] # NoEntry
            /\ attempts'[key].blockedUntil = attempts[key].blockedUntil]_vars

\* an unlock threw for the only key that has an entry, and that key's lockout
\* stands; the sweep has been due
LockoutSurvivedFailure ==
  \E key \in ClientKeys :
    /\ attempts[key] # NoEntry
    /\ attempts[key].blockedUntil > now
    /\ \A other \in ClientKeys \ {key} : attempts[other] = NoEntry
    /\ now >= CleanupMs
    /\ resp.op = "throw"

\* C17: for every key, the requests that the limiter let through less than
\* windowMs ago, since the last reset of the key, number at most maxAttempts.
RollingBound ==
  \A key \in ClientKeys : Len(passed[key]) <= maxAttempts

\* toEqual: equality of VaultData up to properties that are undefined
toEqual(a, b) ==
  /\ DOMAIN a = DOMAIN b
  /\ Len(a.entries) = Len(b.entries)
  /\ \A i \in 1..Len(a.entries) : Defined(a.entries[i]) = Defined(b.entries[i])

\* C18: decryptVault, given the file encryptVault made of some data and the
\* same password, returns data equal to the input (properties set to
\* undefined apart), the key encryptVault returned and the kdf of the file.
CryptoRoundTrip ==
  call.fn = "decryptVault" /\ call.how = "none" /\ call.with = call.password
    => /\ call.out.ok
       /\ toEqual(call.out.vault, call.data)
       /\ call.out.key = call.key
       /\ call.out.kdf = call.written.kdf
       /\ call.out.kdf = call.key.kdf

\* a vault with two entries, one of them with notes, came back from decryptVault
RoundTripDone ==
  /\ call.fn = "decryptVault"
  /\ call.how = "none"
  /\ call.with = call.password
  /\ Len(call.data.entries) = 2
  /\ call.out.vault = call.data

\* the errors of the integrity check of decryptVaultWithKey
IntegrityErrors == {"HMAC_MISSING", "TAMPERED"}

\* C19: decryptVault of an untouched file with a password other than the one
\* it was encrypted with fails, returns no data, and fails with an error of
\* the wrong-password kind, which is not one of the integrity errors that a
\* tampered or tag-less file raises.
WrongKeyIsAuthentication ==
  call.fn = "decryptVault" /\ call.how = "none" /\ call.with # call.password
    => /\ ~call.out.ok
       /\ call.out.vault = <<>>
       /\ call.out.error \notin IntegrityErrors

\* C20: decryptVaultWithKey, given the key of encryptVault and a file of
\* version 2 or more whose hmac is absent or whose cipher.data is not the one
\* written, fails with an error of the integrity check, the step that comes
\* before the cipher is opened, and returns no data.
TamperDetected ==
  /\ call.fn = "decryptVaultWithKey"
  /\ call.vault.version >= 2
  /\ \/ call.vault.hmac = NoHmac
     \/ call.vault.cipher.data # call.written.cipher.data
  => /\ ~call.out.ok
     /\ call.out.error \in IntegrityErrors
     /\ call.out.data = <<>>

\* a file whose cipher.data was altered and whose hmac was kept was rejected
TamperRejected ==
  /\ call.fn = "decryptVaultWithKey"
  /\ call.how = "cipher altered"
  /\ call.vault.hmac = call.written.hmac
  /\ call.out.error = "TAMPERED"

\* C21: a file of version 1 without hmac, its cipher as written, decrypts
\* with the key it was encrypted under, and with the password of that key,
\* to the data that was encrypted.
LegacyDecrypts ==
  /\ call.fn \in {"decryptVaultWithKey", "decryptVault"}
  /\ call.fn = "decryptVault" => call.with = call.password
  /\ call.vault.version = 1
  /\ call.vault.hmac = NoHmac
  /\ call.vault.cipher = call.written.cipher
  => /\ call.out.ok
     /\ toEqual(IF call.fn = "decryptVault" THEN call.out.vault ELSE call.out.data,
                call.data)

\* a version 1 file with one entry and no hmac was decrypted with the key
LegacyDecrypted ==
  /\ call.fn = "decryptVaultWithKey"
  /\ call.how = "version 1"
  /\ call.vault.hmac = NoHmac
  /\ call.out.ok
  /\ Len(call.out.data.entries) = 1

\* a VaultFile of version 2 whose hmac verifies under key
Stamped(vault, key) ==
  /\ vault.version = 2
  /\ vault.hmac # NoHmac
  /\ vault.hmac = computeHMAC([version |-> vault.version, kdf |-> vault.kdf,
                               cipher |-> vault.cipher], key)

\* C22: every file that unlock or persist hands to writeVaultFile has version
\* 2 and an hmac that verifies under the key of its session, also when the
\* session was unlocked from a file of version 1; and every complete file on
\* disk that is not the one the process found there is such a file.
WritesAreVersionTwo ==
  /\ \A s \in Slots : ops[s].pc \in WritePcs => Stamped(ops[s].file, ops[s].key)
  /\ \A f \in {vaultPath, tmpPath} :
       f.kind = "complete" /\ JSONparse(f.text).value # LegacyVault
         => \E pw \in Passwords :
               Stamped(JSONparse(f.text).value,
                       deriveKey(pw, JSONparse(f.text).value.kdf))

\* a session unlocked from the version 1 file has persisted a mutation
LegacyRewritten ==
  /\ session # NoSession
  /\ session.kdf = LegacyVault.kdf
  /\ vaultPath.kind = "complete"
  /\ JSONparse(vaultPath.text).value.version = 2
  /\ JSONparse(vaultPath.text).value.kdf = LegacyVault.kdf

\* the normalized target is the normalized entry domain, or some "." of it is
\* followed by exactly the normalized entry domain
MatchRule(entryDomain, targetDomain) ==
  LET e == normalizeDomain(entryDomain)
      t == normalizeDomain(targetDomain)
  IN t = e \/ \E i \in 1..Len(t) : t[i] = "." /\ SubSeq(t, i + 1, Len(t)) = e

\* domainMatches returns what the rule says
MatchesByRule ==
  call.fn = "domainMatches"
    => /\ call.out = MatchRule(call.entry, call.target)
       /\ domainMatches(<<"a", ".", "c">>, <<"w", ".", "a", ".", "c">>)
       /\ domainMatches(<<"w", "w", "w", ".", "a", ".", "c">>, <<"a", ".", "c">>)
       /\ ~domainMatches(<<"w", ".", "a", ".", "c">>, <<"a", ".", "c">>)
       /\ ~domainMatches(<<"a", ".", "c">>, <<"w", "a", ".", "c">>)

\* getEntriesForDomain returns the entries that match the domain asked for
\* under the rule, in their order
LookupByRule ==
  \A token \in PresentedTokens, domain \in DomainInputs :
    getEntriesForDomain(token, domain) /\ resp'.status = "ok"
      => LET match(entry) == MatchRule(entry.domain, domain)
         IN resp'.data = SelectSeq(session.vault.entries, match)

\* C23: domainMatches(entryDomain, targetDomain) is true exactly when the
\* normalized target equals the normalized entry domain or ends with "."
\* followed by it (a subdomain and a www target match, a parent target and a
\* suffix that does not start at a dot do not), and getEntriesForDomain
\* returns exactly the entries that match the domain asked for under this rule.
DomainMatchDirection == []MatchesByRule /\ [][LookupByRule]_vars

\* the stored entries have pairwise distinct ids
DistinctIds ==
  session # NoSession
    => \A i, j \in 1..Len(session.vault.entries) :
         session.vault.entries[i].id = session.vault.entries[j].id => i = j

\* within a session every entry after a step is an entry from before the step
\* with its id and createdAt, or the entry addEntry made in this step
IdentityKept ==
  session # NoSession /\ session' # NoSession /\ session'.token = session.token
    => \A i \in 1..Len(session'.vault.entries) :
         \/ \E j \in 1..Len(session.vault.entries) :
              /\ session.vault.entries[j].id = session'.vault.entries[i].id
              /\ session.vault.entries[j].createdAt = session'.vault.entries[i].createdAt
         \/ /\ nextRand' = nextRand + 1
            /\ session'.vault.entries[i].id = nextRand'
            /\ Len(session'.vault.entries) = Len(session.vault.entries) + 1

\* C24: after any sequence of addEntry, updateEntry and deleteEntry calls,
\* with any body that PUT /api/entries/:id forwards, the stored entries have
\* pairwise distinct ids and no entry's id or createdAt has changed since the
\* entry was created.
EntryIdentity == []DistinctIds /\ [][IdentityKept]_vars

\* C25: when addEntry, updateEntry or deleteEntry throws because persist
\* failed, after the change was applied in memory, the session is locked by
\* the time the error response is sent, so that no later request is served
\* from the entries that are not on disk.
PersistFailureLocks ==
  [][\A s \in Slots :
       /\ ops[s].kind \in MutationKinds
       /\ ops'[s] = Idle
       /\ resp'.op = "throw"
       => session' = NoSession]_vars

\* C26: for an existing vault, POST /api/unlock answers the same status and
\* the same body when the master password is wrong as when the file of
\* version 2 or more was changed (cipher altered, hmac missing or invalid):
\* in both cases 401 with the error "Invalid master password".
BoundaryCollapse ==
  [][/\ ops[1].kind = "unlock"
     /\ ops'[1] = Idle
     /\ vaultPath.kind = "complete"
     /\ \/ ops[1].pw # SeedVault.hmac.key.pw
        \/ /\ JSONparse(vaultPath.text).value.version >= 2
           /\ vaultPath # Complete(SeedVault)
     => unlockResponse(resp') =
          [status |-> 401, body |-> [error |-> "Invalid master password"]]]_vars

\* unlock threw for a file whose hmac was removed
TamperedUnlockRefused ==
  /\ vaultPath = Complete(Tampered(SeedVault, "hmac removed"))
  /\ resp.op = "throw"
  /\ resp.status = "HMAC_MISSING"

\* C27: status(), which reports locked, entryCount and lastActivity of the
\* current state without a token, and every authenticated call that is
\* rejected with LOCKED or INVALID_SESSION leave lastActivity, the pending
\* auto-lock timer, the entries and the vault file as they were.
OnlyAuthenticatedExtends ==
  [][/\ resp'.op = "status"
         => resp'.data =
              [locked |-> session = NoSession,
               entryCount |-> IF session = NoSession THEN 0
                              ELSE Len(session.vault.entries),
               lastActivity |-> IF session = NoSession THEN -1
                                ELSE session.lastActivity]
     /\ \/ resp'.op = "status"
        \/ resp'.op = "throw" /\ resp'.status \in {"LOCKED", "INVALID_SESSION"}
        => UNCHANGED <<session, lockTimer, timers, vaultPath, tmpPath>>]_vars

\* a call with a wrong token was rejected after the session had been idle
StaleSessionNotExtended ==
  /\ resp.op = "throw"
  /\ resp.status = "INVALID_SESSION"
  /\ session # NoSession
  /\ session.lastActivity < now
  /\ Len(session.vault.entries) > 0

\* the character sets that opts enables
EnabledSets(opts) ==
  {key \in {"uppercase", "lowercase", "numbers", "symbols"} :
     IF key \in DOMAIN opts THEN opts[key] ELSE TRUE}

\* the characters of a character set
Chars(key) == {CHARSETS[key][i] : i \in 1..Len(CHARSETS[key])}

\* max(8, requested length) is the integer len
IsMaxOf8(len, opts) ==
  LET requested == IF "length" \in DOMAIN opts THEN opts.length ELSE Num(20)
  IN /\ requested # NaN
     /\ ~requested.half
     /\ len = IF requested.n > 8 THEN requested.n ELSE 8

\* C28: generatePassword throws when no character set is enabled; otherwise
\* it returns a password of length max(8, requested length) whose characters
\* all belong to enabled sets and that holds a character of every enabled set.
PasswordShape ==
  call.fn = "generatePassword"
    => IF EnabledSets(call.opts) = {}
       THEN ~call.out.ok
       ELSE /\ call.out.ok
            /\ IsMaxOf8(Len(call.out.password), call.opts)
            /\ \A i \in 1..Len(call.out.password) :
                 \E key \in EnabledSets(call.opts) : call.out.password[i] \in Chars(key)
            /\ \A key \in EnabledSets(call.opts) :
                 \E i \in 1..Len(call.out.password) : call.out.password[i] \in Chars(key)

\* at most one timer is pending, and it is the one this.lockTimer holds
OneTimer ==
  /\ Cardinality(timers) <= 1
  /\ \A t \in timers : t.id = lockTimer

\* a step that sets a timer leaves no timer from before the step pending
CancelFirst ==
  \A t \in timers' \ timers : timers' = {t}

\* C29: at most one auto-lock timer is pending at any time, whatever the
\* interleaving of unlocks, authenticated calls, lock and timer expiry, and
\* every scheduling cancels the timer that was pending before.
SingleTimer == []OneTimer /\ [][CancelFirst]_vars

\* a timer set at time 0 was replaced by one set later, while a second
\* unlock is in flight
TimerRescheduled ==
  /\ \E t \in timers : t.deadline > lockTimeoutMs
  /\ session # NoSession
  /\ InFlight(ops) # {}

\* unlock sets the session up with the kdf of the file it read or created
\* and the key derived from the password and that kdf
SessionFromFile ==
  \A s \in Slots :
    ops[s].kind = "unlock" /\ ops'[s] = Idle /\ resp'.op = "unlock"
      => /\ session'.kdf = ops[s].file.kdf
         /\ session'.key = deriveKey(ops[s].pw, ops[s].file.kdf)

\* a session keeps its kdf and its key
SessionKeepsKey ==
  session # NoSession /\ session' # NoSession /\ session'.token = session.token
    => session'.kdf = session.kdf /\ session'.key = session.key

\* the file a mutation hands to writeVaultFile has the kdf of the session and
\* is encrypted and authenticated under the key of the session
PersistKeepsKdf ==
  \A s \in Slots :
    ops[s] = Idle /\ ops'[s].kind \in MutationKinds
      => /\ ops'[s].file.kdf = session.kdf
         /\ ops'[s].key = session.key
         /\ Stamped(ops'[s].file, session.key)
         /\ decryptPayload(ops'[s].file.cipher, session.key).ok

\* C30: every file persisted by a mutation carries the kdf of the file its
\* session was created or unlocked from and is encrypted under the key
\* derived at unlock; persist draws no new salt and derives no key.
KdfFixed == [][SessionFromFile /\ SessionKeepsKey /\ PersistKeepsKdf]_vars

\* a mutation of a session unlocked from the version 1 file has written its
\* file, with the kdf of that file
MutationWithOldKdf ==
  \E s \in Slots :
    /\ ops[s].kind \in MutationKinds
    /\ ops[s].pc = "chmod"
    /\ ops[s].file.kdf = LegacyVault.kdf
    /\ vaultPath = Complete(ops[s].file)

\* the window of entry and its lockout, if it has one, are in the past
Expired(entry) ==
  /\ entry.resetAt < now
  /\ entry.blockedUntil = NotBlocked \/ entry.blockedUntil < now

\* the times of later requests that are tried: now, and the next seconds,
\* sweeps and deadlines
LaterTimes ==
  {now + d : d \in {0, 1, 499, 500, 501, CleanupMs, 2 * CleanupMs}}

\* the sweep removes the expired entries and no other
SweepExact ==
  cleanup => \A key \in ClientKeys :
               attempts'[key] = IF attempts[key] # NoEntry /\ Expired(attempts[key])
                                THEN NoEntry
                                ELSE attempts[key]

\* a request at a later time is treated alike with and without the sweep
SweepNeutral ==
  cleanup => \A key \in ClientKeys, t \in LaterTimes :
               /\ limit(attempts, t, key).next = limit(attempts', t, key).next
               /\ limit(attempts, t, key).retryAfter = limit(attempts', t, key).retryAfter
               /\ limit(attempts, t, key).attempts[key] =
                    limit(attempts', t, key).attempts[key]

\* C31: cleanup removes exactly the entries whose window and lockout, if
\* any, are both in the past, so that an entry with a lockout in the future or
\* an open window stays, and the sweep changes the outcome of no later request.
SweepHarmless == [][SweepExact /\ SweepNeutral]_vars

\* the sweep removed the entry of a client whose last request is less than a
\* window ago
SweptEntry ==
  \E key \in ClientKeys : attempts[key] = NoEntry /\ passed[key] # <<>>

\* C32: when writeVaultFile fails inside addEntry, updateEntry or deleteEntry,
\* the mutation throws the error, the session keeps the change it made in
\* memory, and the vault path still holds the complete file of the last write
\* that succeeded, not the file of the failed write.
NoRollback ==
  [][\A s \in Slots :
       /\ ops[s].kind \in MutationKinds
       /\ ops'[s] = Idle
       /\ resp'.op = "throw"
       => /\ resp'.status = "IO_ERROR"
          /\ session' = session
          /\ vaultPath' = vaultPath
          /\ vaultPath.kind = "complete"
          /\ vaultPath # Complete(ops[s].file)]_vars

\* seq without its i-th element
RemoveAt(seq, i) == SubSeq(seq, 1, i - 1) \o SubSeq(seq, i + 1, Len(seq))

\* an update or a delete of an id that no stored entry has throws NOT_FOUND,
\* starts no write and leaves the entries and the files as they are
UnknownIdRefused ==
  \A s \in Slots, token \in PresentedTokens, id \in PresentedIds :
    /\ requireSession(token) = "ok"
    /\ findIndex(session.vault.entries, id) = 0
    /\ \/ deleteEntry(s, token, id)
       \/ \E payload \in UpdatePayloads \cup IdentityPatches :
             updateEntry(s, token, id, payload)
    => /\ resp' = Response("throw", "NOT_FOUND", <<>>)
       /\ session'.vault = session.vault
       /\ ops' = ops
       /\ vaultPath' = vaultPath
       /\ tmpPath' = tmpPath

\* a delete of the id of a stored entry removes that one entry
DeletesOne ==
  \A s \in Slots, token \in PresentedTokens, id \in PresentedIds :
    /\ requireSession(token) = "ok"
    /\ findIndex(session.vault.entries, id) # 0
    /\ deleteEntry(s, token, id)
    => session'.vault.entries =
         RemoveAt(session.vault.entries, findIndex(session.vault.entries, id))

\* C33: updateEntry and deleteEntry with an id that no stored entry has throw
\* NOT_FOUND, leave the entries in memory as they are and write nothing;
\* deleteEntry with the id of a stored entry removes exactly that entry and
\* leaves the others, and their order, unchanged.
UnknownIdAndDelete == [][UnknownIdRefused /\ DeletesOne]_vars

\* C34: decryptVault with the password a file was written for rejects every
\* altered copy of the file, whether the version, a field of kdf, a field of
\* cipher or the hmac differs, also when the hmac was removed and the version
\* changed; removing the hmac does not get a file past the integrity check.
FileTamperEvident ==
  /\ call.fn = "decryptVault"
  /\ call.with = call.password
  /\ call.vault # call.written
  => /\ ~call.out.ok
     /\ call.out.vault = <<>>

\* C35: an unlock that throws, for whatever reason (NO_VAULT, wrong password,
\* integrity failure, read, parse or write error), has changed nothing: no
\* step of it before the throw and not the throw change the session, its
\* lastActivity or the pending timer, and when it throws the vault path does
\* not hold the file it was writing; if it had the service to itself, the
\* vault path still holds no file.
FailedUnlockFrame ==
  /\ [][\A s \in Slots :
          ops[s].kind = "unlock" /\ ops'[s] = Idle /\ resp'.op = "throw"
          => /\ UNCHANGED <<session, lockTimer, timers, vaultPath>>
             /\ ops[s].pc \in WritePcs
                  => /\ vaultPath # Complete(ops[s].file)
                     /\ ops[s].alone => vaultPath = NoFile]_vars
  /\ [][\A s \in Slots :
          ops[s].kind = "unlock" /\ ops'[s] # Idle /\ ops'[s].pc # ops[s].pc
          => UNCHANGED <<session, lockTimer, timers>>]_vars

\* a timer is pending exactly when there is a session and auto-lock is on, and
\* lockTimer holds a handle exactly when a timer is pending
TimerCoupled ==
  /\ timers # {} <=> session # NoSession /\ lockTimeoutMs > 0
  /\ lockTimer # NoTimer <=> timers # {}

\* with auto-lock off a session ends in lock() or in the unlock that replaces it
EndsByLockOrUnlock ==
  /\ lockTimeoutMs = 0
  /\ session # NoSession
  /\ session' = NoSession \/ session'.token # session.token
  => resp'.op \in {"lock", "unlock"}

\* C36: in every reachable state an auto-lock timer is pending if and only
\* if a session exists and lockTimeoutMs > 0; with lockTimeoutMs = 0 no timer
\* is ever set and a session ends only by lock() or by replacement, and no
\* timer outlives its session.
TimerSessionCoupling == []TimerCoupled /\ [][EndsByLockOrUnlock]_vars

\* with auto-lock off, a session has been idle for longer than LockTimeout
IdleSessionStays ==
  /\ lockTimeoutMs = 0
  /\ session # NoSession
  /\ now - session.lastActivity > LockTimeout
  /\ timers = {}

\* C37: once lock() or the auto-lock timer has destroyed the session, an
\* operation that was in flight at that moment, mutation or unlock, takes no
\* step that writes the temp file or the vault file or that sets a session:
\* the key is not used and no session exists until an unlock that is called
\* after the lock.
KeyDiesWithSession ==
  [][\A s \in Orphans :
       ops'[s] = Idle \/ ops'[s].pc # ops[s].pc
       => /\ UNCHANGED <<vaultPath, tmpPath>>
          /\ session' = session]_vars

\* C38: whenever a session exists and no operation is in flight, the vault
\* file decrypts under the key of the session to the entries of the session
\* and carries the kdf of the session, after every interleaving of unlocks
\* with each other and with entry mutations.
QuiescentAgreement ==
  InFlight(ops) = {} /\ session # NoSession
  => /\ readVaultFile.ok
     /\ readVaultFile.file.kdf = session.kdf
     /\ DiskMatchesSession

\* C39: normalizeDomain is idempotent: normalizing its result again gives the
\* same string, and so normalizing the domain of a stored entry, as
\* domainMatches does, does not change it.
NormalizeIdempotent ==
  /\ call.fn = "normalizeDomain" => normalizeDomain(call.out) = call.out
  /\ session # NoSession
       => \A i \in 1..Len(session.vault.entries) :
            normalizeDomain(session.vault.entries[i].domain) =
              session.vault.entries[i].domain

\* C40: after any sequence of POST /api/entries and PUT /api/entries/:id
\* requests that the routes accept, every stored entry satisfies
\* validateVaultEntry: site, domain, username and password are not empty
\* and no field is longer than its limit.
StoredEntriesValid ==
  session # NoSession
  => \A i \in 1..Len(session.vault.entries) :
       validateVaultEntry(session.vault.entries[i]) = "ok"

====
